---- MODULE Spec2Model ----
(***************************************************************************)
(* CMND API packet framer of the DECT ULE starter kit.                     *)
(*                                                                         *)
(*  - p_CmndPacketParser_ParseCmndPacket, the whole-buffer parser          *)
(*    (CmndPacketParser.c), checked as a pure function under Spec.         *)
(*  - HAL_UART_RxCpltCallback, the UART receive interrupt that hands one   *)
(*    byte at a time to p_hanCmndApi_HandleByte, checked under SpecFeed.   *)
(*  - ExampleMain of the four example applications with its interrupts,    *)
(*    checked under SpecApp (SpecAppFair for what the loop gets done).     *)
(*  - p_HandleButton around the wrap of the tick counter, SpecButton.      *)
(*  - The message builders of CmndLib and ExampleSendRawFunMessage as      *)
(*    functions of their arguments, SpecLib.                               *)
(***************************************************************************)
EXTENDS Integers, Sequences, FiniteSets, TLC

VARIABLES
    pc,                 \* position of the whole-buffer run: "msg", "buf", "done"
    hostLittleEndian,   \* byte order of the build's host CPU
    m,                  \* the message that was encoded into pu8_Buffer, or NoMsg
    pu8_Buffer,         \* the buffer handed to the parser
    msgBefore,          \* the caller's message before the call (NULL for a null pointer)
    pst_cmndApiMsg,     \* the caller's message after the call
    ret,                \* the return value of the parser or builder (FALSE before the call)
    call,               \* the library call made: function and arguments (NoCall before)
    segments,           \* what the DU-EB sends: the segments of the byte stream
    uartRx,             \* bytes still on the UART line, in arrival order
    rxArmed,            \* HAL_UART_Receive_IT is armed for the next byte
    consumed,           \* the bytes the receive callback has consumed so far
    g_ParserContext,    \* t_stReceiveData of the receive callback
    g_st_Msg,           \* the message buffer the callback hands to the parser
    haveMessage,        \* result of the last p_hanCmndApi_HandleByte call
    emitted,            \* for every completed frame: consumed byte count and message
    dispatched,         \* number of ExampleCmndMessageReceived calls
    app,                \* the example application the board runs
    mainPc,             \* position of ExampleMain
    resetN,             \* GPIOA8 is set: the reset of the DU-EB is released
    initCalls,          \* number of ExampleInitParserContext calls
    isrTrace,           \* the calls the latest HAL_UART_RxCpltCallback made, in order
    rxLog,              \* the g_st_Msg the latest ExampleCmndMessageReceived read
    globals,            \* the static variables of AppExample.c, by name
    g_st_Button,        \* t_st_Button of the blue button
    B1_Pressed,         \* !HAL_GPIO_ReadPin( B1 ) as the latest p_HandleButton call got it
    uwTick,             \* HAL_GetTick(), milliseconds
    LD2,                \* the green LED is on
    blinks,             \* LED indications of the latest step of the main loop (ms on)
    uartWrites,         \* ExampleUartWrite calls of the latest step of the main loop
    sendRet,            \* return values of the send functions called by that step
    en_ButtonMovement   \* what p_HandleButton returned to the latest loop iteration

parseVars == <<pc, m, pu8_Buffer, msgBefore, pst_cmndApiMsg, ret, call>>
feedVars  == <<segments, uartRx, rxArmed, consumed, g_ParserContext, g_st_Msg,
               haveMessage, emitted, dispatched>>
\* What the interrupt writes of the application, and what only ExampleMain writes.
isrVars   == <<isrTrace, rxLog>>
mainVars  == <<mainPc, resetN, initCalls, g_st_Button, B1_Pressed, LD2, blinks, uartWrites,
               sendRet, en_ButtonMovement>>
appVars   == <<app, mainPc, resetN, initCalls, isrTrace, rxLog, globals, g_st_Button, B1_Pressed,
               uwTick, LD2, blinks, uartWrites, sendRet, en_ButtonMovement>>
vars      == <<pc, hostLittleEndian, m, pu8_Buffer, msgBefore, pst_cmndApiMsg, ret, call,
               segments, uartRx, rxArmed, consumed, g_ParserContext, g_st_Msg,
               haveMessage, emitted, dispatched,
               app, mainPc, resetN, initCalls, isrTrace, rxLog, globals, g_st_Button, B1_Pressed,
               uwTick, LD2, blinks, uartWrites, sendRet, en_ButtonMovement>>

(***************************************************************************)
(* Protocol constants.                                                     *)
(***************************************************************************)
\* Fixed header: cookie, unitId, serviceId (2), messageId, checksum.
CMND_API_PROTOCOL_COOKIE_POS == 0
CMND_API_PROTOCOL_UNITID_POS == 1
CMND_API_PROTOCOL_SERVICEID_POS == 2
CMND_API_PROTOCOL_MESSAGEID_POS == 4
CMND_API_PROTOCOL_CHECKSUM_POS == 5
CMND_API_PROTOCOL_DATASTART_POS == 6
CMND_API_PROTOCOL_SIZE_WITHOUT_DATA == 6

\* Payload capacity used for model checking.
MaxPayload == 2

\* Capacity of t_st_hanCmndApiMsg.data.
CMNDLIB_API_PACKET_MAX_SIZE == MaxPayload

U16 == 65536

\* A null pointer, and the absence of a source message.
\* No call of a message builder or send function yet.
NoCall == [fn |-> "none"]

NULL  == [null |-> TRUE]
NoMsg == [none |-> TRUE]
IsNull(p) == DOMAIN p = {"null"}

\* Byte values the inputs are drawn from.
Bytes == {0, 1, 255}

DataIdx == 0 .. (CMNDLIB_API_PACKET_MAX_SIZE - 1)

\* t_st_hanCmndApiMsg after memset( ..., 0, sizeof ).
ZeroMsg ==
    [cookie |-> 0, unitId |-> 0, serviceId |-> 0, messageId |-> 0,
     checkSum |-> 0, dataLength |-> 0, data |-> [i \in DataIdx |-> 0]]

\* A caller's message structure that holds an earlier, unrelated message.
DirtyMsg ==
    [cookie |-> 7, unitId |-> 7, serviceId |-> 1799, messageId |-> 7,
     checkSum |-> 7, dataLength |-> 1, data |-> [i \in DataIdx |-> 7]]

(***************************************************************************)
(* p_CmndPacketParser_ParseCmndPacket                                      *)
(***************************************************************************)
\* pu8_Buffer[pos]; the parser reads only below u16_BufferLength.
ByteAt(buf, pos) == IF pos + 1 \in DOMAIN buf THEN buf[pos + 1] ELSE 0

\* memcpy of two buffer bytes into a u16, in the host's byte order.
MemcpyU16(b0, b1) == IF hostLittleEndian THEN b0 + 256 * b1 ELSE 256 * b0 + b1

\* Network (big-endian) to host order: a byte swap on little-endian hosts.
p_Endian_net2hos16(x) ==
    IF hostLittleEndian THEN (x % 256) * 256 + (x \div 256) ELSE x

\* The length guard of the first if.
HeaderTooShort_Off(u16_BufferLength) ==
    u16_BufferLength < CMND_API_PROTOCOL_SIZE_WITHOUT_DATA - 1

HeaderTooShort_Strict(u16_BufferLength) ==
    u16_BufferLength <= CMND_API_PROTOCOL_SIZE_WITHOUT_DATA

HeaderTooShort(u16_BufferLength) ==
    u16_BufferLength < CMND_API_PROTOCOL_SIZE_WITHOUT_DATA

\* memset and the five header fields; dataLength = 0.
DecodeHeader_NoSwap(buf) ==
    [ZeroMsg EXCEPT
        !.cookie    = ByteAt(buf, CMND_API_PROTOCOL_COOKIE_POS),
        !.unitId    = ByteAt(buf, CMND_API_PROTOCOL_UNITID_POS),
        !.serviceId = MemcpyU16(ByteAt(buf, CMND_API_PROTOCOL_SERVICEID_POS),
                                ByteAt(buf, CMND_API_PROTOCOL_SERVICEID_POS + 1)),
        !.messageId = ByteAt(buf, CMND_API_PROTOCOL_MESSAGEID_POS),
        !.checkSum  = ByteAt(buf, CMND_API_PROTOCOL_CHECKSUM_POS)]

DecodeHeader(buf) ==
    [ZeroMsg EXCEPT
        !.cookie    = ByteAt(buf, CMND_API_PROTOCOL_COOKIE_POS),
        !.unitId    = ByteAt(buf, CMND_API_PROTOCOL_UNITID_POS),
        !.serviceId = p_Endian_net2hos16(
                        MemcpyU16(ByteAt(buf, CMND_API_PROTOCOL_SERVICEID_POS),
                                  ByteAt(buf, CMND_API_PROTOCOL_SERVICEID_POS + 1))),
        !.messageId = ByteAt(buf, CMND_API_PROTOCOL_MESSAGEID_POS),
        !.checkSum  = ByteAt(buf, CMND_API_PROTOCOL_CHECKSUM_POS),
        !.dataLength = 0]

\* The capacity test that guards the payload memcpy.
PayloadFits_Always(dataLength) == TRUE

PayloadFits(dataLength) == dataLength < CMNDLIB_API_PACKET_MAX_SIZE

\* memcpy( data, &pu8_Buffer[DATASTART_POS], n ); bytes past the array are dropped
\* here, the code never asks for them.
CopyPayload_OffByOne(msg, buf, n) ==
    [msg EXCEPT !.data = [i \in DataIdx |->
        IF i < n THEN ByteAt(buf, CMND_API_PROTOCOL_DATASTART_POS + 1 + i)
                 ELSE msg.data[i]]]

CopyPayload(msg, buf, n) ==
    [msg EXCEPT !.data = [i \in DataIdx |->
        IF i < n THEN ByteAt(buf, CMND_API_PROTOCOL_DATASTART_POS + i)
                 ELSE msg.data[i]]]

\* dataLength = u16_BufferLength - SIZE_WITHOUT_DATA, in 16 bits.
PayloadLength_Total(u16_BufferLength) == u16_BufferLength % U16

PayloadLength(u16_BufferLength) ==
    (u16_BufferLength - CMND_API_PROTOCOL_SIZE_WITHOUT_DATA) % U16

\* The whole function: [ret |-> return value, msg |-> *pst_cmndApiMsg after it].
ParseCmndPacket_NoMemset(u16_BufferLength, buf, out) ==
    IF HeaderTooShort(u16_BufferLength) \/ IsNull(out)
    THEN [ret |-> FALSE, msg |-> out]
    ELSE LET hdr == [DecodeHeader(buf) EXCEPT !.data = out.data]
         IN  IF u16_BufferLength > CMND_API_PROTOCOL_SIZE_WITHOUT_DATA
             THEN LET len  == PayloadLength(u16_BufferLength)
                      hdrL == [hdr EXCEPT !.dataLength = len]
                  IN  IF PayloadFits(len)
                      THEN [ret |-> TRUE,  msg |-> CopyPayload(hdrL, buf, len)]
                      ELSE [ret |-> FALSE, msg |-> hdrL]
             ELSE [ret |-> TRUE, msg |-> hdr]

ParseCmndPacket(u16_BufferLength, buf, out) ==
    IF HeaderTooShort(u16_BufferLength) \/ IsNull(out)
    THEN [ret |-> FALSE, msg |-> out]
    ELSE LET hdr == DecodeHeader(buf)
         IN  IF u16_BufferLength > CMND_API_PROTOCOL_SIZE_WITHOUT_DATA
             THEN LET len  == PayloadLength(u16_BufferLength)
                      hdrL == [hdr EXCEPT !.dataLength = len]
                  IN  IF PayloadFits(len)
                      THEN [ret |-> TRUE,  msg |-> CopyPayload(hdrL, buf, len)]
                      ELSE [ret |-> FALSE, msg |-> hdrL]
             ELSE [ret |-> TRUE, msg |-> hdr]

\* p_CmndPacketParser_ParseCmndApiPacket: the t_st_Packet wrapper.
ParseCmndApiPacket(packet, out) == ParseCmndPacket(packet.length, packet.buffer, out)

(***************************************************************************)
(* p_hanCmndApi_HandleByte and t_stReceiveData: the byte-at-a-time framer. *)
(* On the UART every packet buffer is preceded by a 16 bit length field in *)
(* network order that carries the total framed length, the value the       *)
(* whole-buffer parser receives as u16_BufferLength.  The context holds    *)
(* the bytes received so far, the expected total length once it is known   *)
(* and the header-parsed flag.  A completed frame is decoded by the        *)
(* whole-buffer parser and the context is reset; a length below the header *)
(* size or above header + maximum payload discards the frame and resets.   *)
(***************************************************************************)
CMND_API_PROTOCOL_LENGTH_SIZE == 2

\* t_stReceiveData after memset( &g_ParserContext, 0, sizeof(t_stReceiveData) ).
ResetContext ==
    [lengthBytes |-> 0, expectedLength |-> 0, received |-> <<>>, headerParsed |-> FALSE]

\* The length field of a packet buffer of n bytes.
LengthField(n) == <<(n % U16) \div 256, n % 256>>

\* A frame error known as soon as the length is: less than a header, or an implied
\* payload length that exceeds the maximum payload size.
FrameLengthInvalid(total) ==
    \/ total < CMND_API_PROTOCOL_SIZE_WITHOUT_DATA
    \/ total - CMND_API_PROTOCOL_SIZE_WITHOUT_DATA > CMNDLIB_API_PACKET_MAX_SIZE

\* [ctx |-> the context after the call, msg |-> *pst_Msg after it, have |-> result]
HandleByte(ctx, byte, msg) ==
    IF ctx.lengthBytes < CMND_API_PROTOCOL_LENGTH_SIZE
    THEN LET total == (ctx.expectedLength * 256 + byte) % U16
             n     == ctx.lengthBytes + 1
         IN  IF n = CMND_API_PROTOCOL_LENGTH_SIZE /\ FrameLengthInvalid(total)
             THEN [ctx |-> ResetContext, msg |-> msg, have |-> FALSE]
             ELSE [ctx |-> [ctx EXCEPT !.lengthBytes = n, !.expectedLength = total],
                   msg |-> msg, have |-> FALSE]
    ELSE LET buf == Append(ctx.received, byte)
         IN  IF Len(buf) < ctx.expectedLength
             THEN [ctx |-> [ctx EXCEPT
                              !.received = buf,
                              !.headerParsed =
                                  Len(buf) >= CMND_API_PROTOCOL_SIZE_WITHOUT_DATA],
                   msg |-> msg, have |-> FALSE]
             ELSE LET r == ParseCmndPacket(ctx.expectedLength, buf, msg)
                  IN  [ctx |-> ResetContext, msg |-> r.msg, have |-> r.ret]

(***************************************************************************)
(* Wire encoding of a message (section 6 of the protocol description):     *)
(* six header bytes, serviceId in network order, then the payload.         *)
(***************************************************************************)
Encode(msg) ==
    <<msg.cookie, msg.unitId, msg.serviceId \div 256, msg.serviceId % 256,
      msg.messageId, msg.checkSum>>
    \o [i \in 1 .. msg.dataLength |-> msg.data[i - 1]]

(***************************************************************************)
(* Inputs of the whole-buffer runs.                                        *)
(***************************************************************************)
\* One byte more than the longest buffer the claims speak about.
MaxBufferLength ==
    CMND_API_PROTOCOL_SIZE_WITHOUT_DATA + CMNDLIB_API_PACKET_MAX_SIZE + 1

\* The header of the concrete scenario: 0xAA, 3, 0, 1, 5, 0x7A.
ScenarioHeader == <<170, 3, 0, 1, 5, 122>>

Buffers ==
    UNION {[1 .. n -> Bytes] : n \in 0 .. MaxBufferLength} \cup {ScenarioHeader}

\* Valid messages: dataLength within the array, unused payload bytes zero.
Messages ==
    {[cookie |-> c, unitId |-> u, serviceId |-> s, messageId |-> 5,
      checkSum |-> k, dataLength |-> n,
      data |-> [i \in DataIdx |-> IF i < n THEN d[i] ELSE 0]] :
        c \in {0, 170}, u \in {0, 3}, s \in {1, 258, 65535}, k \in {0, 122},
        n \in 0 .. CMNDLIB_API_PACKET_MAX_SIZE, d \in [DataIdx -> {1, 255}]}

OutputsBefore == {NULL, ZeroMsg, DirtyMsg}

(***************************************************************************)
(* The example applications (AppExample.c of RawData, Alert, VoiceCall and *)
(* Register): the static variables, the message handler the receive        *)
(* interrupt calls, and the helpers of the main loop.                      *)
(***************************************************************************)
Apps == {"RawData", "Alert", "VoiceCall", "Register"}

\* Enumerators of CmndApiExported.h.  The header is not part of the sources; the
\* handlers only compare these values for equality, so each gets a number of its
\* own within its enumeration.
CMND_SERVICE_ID_GENERAL == 0
CMND_SERVICE_ID_DEVICE_MANAGEMENT == 1
CMND_SERVICE_ID_FUN == 13
CMND_SERVICE_ID_ULE_VOICE_CALL == 20
CMND_MSG_GENERAL_HELLO_IND == 10
CMND_MSG_GENERAL_LINK_CFM == 13
CMND_MSG_FUN_RECV_IND == 2
CMND_MSG_DEV_MGNT_REGISTER_DEVICE_CFM == 2
CMND_MSG_DEV_MGNT_REGISTER_DEVICE_IND == 3
CMND_MSG_ULE_CALL_START_IND == 1
CMND_MSG_ULE_CALL_START_CFM == 2
CMND_MSG_ULE_VOICE_CALL_END_IND == 3
CMND_MSG_ULE_VOICE_CALL_END_CFM == 4
CMND_MSG_ULE_VOICE_CALL_CONNECTED_IND == 6
CMND_MSG_ULE_VOICE_CALL_RELEASE_IND == 7
CMND_GEN_STATUS_REGISTERED == 1
\* ... and those the message builders of CmndLib write.
CMND_SERVICE_ID_ALERT == 2
CMND_SERVICE_ID_TAMPER_ALERT == 3
CMND_SERVICE_ID_SYSTEM == 5
CMND_MSG_FUN_SEND_REQ == 1
CMND_MSG_DEV_MGNT_REGISTER_DEVICE_REQ == 1
CMND_MSG_DEV_MGNT_DEREGISTER_DEVICE_REQ == 4
CMND_MSG_SYS_BATTERY_MEASURE_GET_REQ == 1
CMND_MSG_SYS_RSSI_GET_REQ == 2
CMND_MSG_SYS_BATTERY_IND_ENABLE_REQ == 3
CMND_MSG_SYS_BATTERY_IND_DISABLE_REQ == 4
CMND_MSG_SYS_RESET_REQ == 5
CMND_MSG_ALERT_NOTIFY_STATUS_REQ == 1
CMND_MSG_ALERT_NOTIFY_STATUS_RES == 2
CMND_MSG_TAMPER_ALERT_NOTIFY_STATUS_REQ == 1
CMND_MSG_TAMPER_ALERT_NOTIFY_STATUS_RES == 2

BUTTON_ACTIVE_TIME == 10
DSPG_RAW_DATA_UNIT_NUMBER == 3
\* "Send raw FUN message with up to 128 bytes"
CMND_IE_FUN_MAX_DATA_SIZE == 128
U8 == 256

\* The static variables after program start (all zero; CALL_IDLE is enumerator 0).
ZeroGlobals ==
    [g_Registered |-> 0, g_DeviceId |-> 0, g_SendResult |-> 0,
     g_RawDataLen |-> 0, g_RawData |-> <<>>,
     g_GotHelloInd |-> 0, g_GotLinkCfmResponse |-> 0, g_GotRawFunReceiveInd |-> 0,
     g_GotRegisterInd |-> 0, g_GotRegisterCfm |-> 0,
     g_GotVoiceCallStartInd |-> 0, g_GotVoiceCallStartCfm |-> 0,
     g_GotVoiceCallEndInd |-> 0, g_GotVoiceCallEndCfm |-> 0,
     g_GotVoiceCallRelInd |-> 0, g_GotVoiceCallConnInd |-> 0,
     g_VoiceCallState |-> "CALL_IDLE", g_EnableBlink |-> 0, g_BlinkOn |-> 0]

\* What p_CmndMsg_IeGet can deliver for the information element a handler asks
\* for: nothing, or the fields of the element (one record stands for the element
\* of every type; a handler reads the fields of its own type only).
IeGetResults ==
    {[found |-> FALSE, u8_RegStatus |-> 0, u16_DeviceID |-> 0, u8_Result |-> 0,
      u8_DstUnitId |-> 0, u16_DataLen |-> 0, pu8_Data |-> <<>>,
      u8_ResponseCode |-> 0, u16_DeviceAddress |-> 0],
     [found |-> TRUE, u8_RegStatus |-> CMND_GEN_STATUS_REGISTERED, u16_DeviceID |-> 5,
      u8_Result |-> 0, u8_DstUnitId |-> DSPG_RAW_DATA_UNIT_NUMBER,
      u16_DataLen |-> 2, pu8_Data |-> <<72, 105>>,
      u8_ResponseCode |-> 0, u16_DeviceAddress |-> 5],
     [found |-> TRUE, u8_RegStatus |-> 0, u16_DeviceID |-> 9,
      u8_Result |-> 1, u8_DstUnitId |-> 2,
      u16_DataLen |-> 1, pu8_Data |-> <<72>>,
      u8_ResponseCode |-> 1, u16_DeviceAddress |-> 9]}

\* p_CmndMsg_IeGet( pst_Msg, getter, ... ): what it delivers is a function of the
\* payload of the message.  The layout of the elements is not part of this
\* model: the first payload byte selects one of IeGetResults, and a message
\* without payload holds no element.
p_CmndMsg_IeGet(pst_Msg) ==
    IF pst_Msg.dataLength = 0 \/ pst_Msg.data[0] = 0
    THEN CHOOSE r \in IeGetResults : ~r.found
    ELSE IF pst_Msg.data[0] = 1
         THEN CHOOSE r \in IeGetResults : r.found /\ r.u8_Result = 0
         ELSE CHOOSE r \in IeGetResults : r.found /\ r.u8_Result # 0

\* ExampleHandleHelloInd storing the device id whatever the status is.
ExampleHandleHelloInd_IdAlways(gl, st_IeGenStatus) ==
    LET g1 == IF st_IeGenStatus.found
              THEN [gl EXCEPT !.g_Registered =
                                  IF CMND_GEN_STATUS_REGISTERED = st_IeGenStatus.u8_RegStatus
                                  THEN 1 ELSE 0,
                              !.g_DeviceId = st_IeGenStatus.u16_DeviceID]
              ELSE gl
    IN  [g1 EXCEPT !.g_GotHelloInd = 1]

ExampleHandleHelloInd(gl, st_IeGenStatus) ==
    LET reg == IF CMND_GEN_STATUS_REGISTERED = st_IeGenStatus.u8_RegStatus
               THEN 1 ELSE 0
        g1  == IF st_IeGenStatus.found
               THEN [gl EXCEPT !.g_Registered = reg,
                               !.g_DeviceId = IF reg # 0
                                              THEN st_IeGenStatus.u16_DeviceID ELSE @]
               ELSE gl
    IN  [g1 EXCEPT !.g_GotHelloInd = 1]

ExampleHandleLinkCfm(gl, st_IeResponse) ==
    LET g1 == IF st_IeResponse.found
              THEN [gl EXCEPT !.g_SendResult = st_IeResponse.u8_Result]
              ELSE gl
    IN  [g1 EXCEPT !.g_GotLinkCfmResponse = 1]

\* g_RawDataLen is a u8; memcpy copies g_RawDataLen bytes.
ExampleHandleFunRecvInd(gl, st_IeFun) ==
    IF ~st_IeFun.found
    THEN gl
    ELSE IF st_IeFun.u8_DstUnitId = 3
         THEN LET len == st_IeFun.u16_DataLen % U8
              IN  [gl EXCEPT !.g_RawDataLen = len,
                             !.g_RawData = SubSeq(st_IeFun.pu8_Data, 1, len),
                             !.g_GotRawFunReceiveInd = 1]
         ELSE gl

ExampleHandleRegisterCfm(gl, st_IeResponse) ==
    LET g1 == IF st_IeResponse.found
              THEN [gl EXCEPT !.g_SendResult = st_IeResponse.u8_Result]
              ELSE gl
    IN  [g1 EXCEPT !.g_GotRegisterCfm = 1]

ExampleHandleRegisterInd(gl, ieResponse) ==
    LET g1 == IF ieResponse.found
              THEN [gl EXCEPT !.g_SendResult = ieResponse.u8_ResponseCode,
                              !.g_DeviceId = ieResponse.u16_DeviceAddress,
                              !.g_Registered = IF ieResponse.u8_ResponseCode = 0
                                               THEN 1 ELSE 0]
              ELSE gl
    IN  [g1 EXCEPT !.g_GotRegisterInd = 1]

\* The switch of ExampleCmndMessageReceived in each example.
RawData_MessageReceived_AnyService(msg, gl, ie) ==
    IF msg.messageId = CMND_MSG_GENERAL_HELLO_IND
    THEN ExampleHandleHelloInd(gl, ie)
    ELSE IF msg.messageId = CMND_MSG_GENERAL_LINK_CFM
         THEN ExampleHandleLinkCfm(gl, ie)
         ELSE IF msg.messageId = CMND_MSG_FUN_RECV_IND
              THEN ExampleHandleFunRecvInd(gl, ie)
              ELSE gl

RawData_MessageReceived(msg, gl, ie) ==
    CASE msg.serviceId = CMND_SERVICE_ID_GENERAL ->
            IF msg.messageId = CMND_MSG_GENERAL_HELLO_IND
            THEN ExampleHandleHelloInd(gl, ie)
            ELSE IF msg.messageId = CMND_MSG_GENERAL_LINK_CFM
                 THEN ExampleHandleLinkCfm(gl, ie)
                 ELSE gl
      [] msg.serviceId = CMND_SERVICE_ID_FUN ->
            IF msg.messageId = CMND_MSG_FUN_RECV_IND
            THEN ExampleHandleFunRecvInd(gl, ie)
            ELSE gl
      [] OTHER -> gl

Alert_MessageReceived(msg, gl, ie) ==
    CASE msg.serviceId = CMND_SERVICE_ID_DEVICE_MANAGEMENT ->
            IF msg.messageId = CMND_MSG_DEV_MGNT_REGISTER_DEVICE_IND
            THEN ExampleHandleRegisterInd(gl, ie)
            ELSE gl
      [] msg.serviceId = CMND_SERVICE_ID_GENERAL ->
            IF msg.messageId = CMND_MSG_GENERAL_HELLO_IND
            THEN ExampleHandleHelloInd(gl, ie)
            ELSE IF msg.messageId = CMND_MSG_GENERAL_LINK_CFM
                 THEN ExampleHandleLinkCfm(gl, ie)
                 ELSE gl
      [] OTHER -> gl

VoiceCall_MessageReceived(msg, gl, ie) ==
    CASE msg.serviceId = CMND_SERVICE_ID_GENERAL ->
            IF msg.messageId = CMND_MSG_GENERAL_HELLO_IND
            THEN ExampleHandleHelloInd(gl, ie)
            ELSE IF msg.messageId = CMND_MSG_GENERAL_LINK_CFM
                 THEN ExampleHandleLinkCfm(gl, ie)
                 ELSE gl
      [] msg.serviceId = CMND_SERVICE_ID_ULE_VOICE_CALL ->
            CASE msg.messageId = CMND_MSG_ULE_CALL_START_IND ->
                    [gl EXCEPT !.g_GotVoiceCallStartInd = 1]
              [] msg.messageId = CMND_MSG_ULE_CALL_START_CFM ->
                    [gl EXCEPT !.g_GotVoiceCallStartCfm = 1]
              [] msg.messageId = CMND_MSG_ULE_VOICE_CALL_END_IND ->
                    [gl EXCEPT !.g_GotVoiceCallEndInd = 1]
              [] msg.messageId = CMND_MSG_ULE_VOICE_CALL_END_CFM ->
                    [gl EXCEPT !.g_GotVoiceCallEndCfm = 1]
              [] msg.messageId = CMND_MSG_ULE_VOICE_CALL_CONNECTED_IND ->
                    [gl EXCEPT !.g_GotVoiceCallConnInd = 1]
              [] msg.messageId = CMND_MSG_ULE_VOICE_CALL_RELEASE_IND ->
                    [gl EXCEPT !.g_GotVoiceCallRelInd = 1]
              [] OTHER -> gl
      [] OTHER -> gl

Register_MessageReceived(msg, gl, ie) ==
    CASE msg.serviceId = CMND_SERVICE_ID_GENERAL ->
            IF msg.messageId = CMND_MSG_GENERAL_HELLO_IND
            THEN ExampleHandleHelloInd(gl, ie)
            ELSE IF msg.messageId = CMND_MSG_GENERAL_LINK_CFM
                 THEN ExampleHandleLinkCfm(gl, ie)
                 ELSE gl
      [] msg.serviceId = CMND_SERVICE_ID_DEVICE_MANAGEMENT ->
            IF msg.messageId = CMND_MSG_DEV_MGNT_REGISTER_DEVICE_CFM
            THEN ExampleHandleRegisterCfm(gl, ie)
            ELSE IF msg.messageId = CMND_MSG_DEV_MGNT_REGISTER_DEVICE_IND
                 THEN ExampleHandleRegisterInd(gl, ie)
                 ELSE gl
      [] OTHER -> gl

MessageReceived(a, msg, gl, ie) ==
    CASE a = "RawData"   -> RawData_MessageReceived(msg, gl, ie)
      [] a = "Alert"     -> Alert_MessageReceived(msg, gl, ie)
      [] a = "VoiceCall" -> VoiceCall_MessageReceived(msg, gl, ie)
      [] a = "Register"  -> Register_MessageReceived(msg, gl, ie)

\* ExampleCmndMessageReceived: logs g_st_Msg, then dispatches on it.  It runs in
\* the callback after p_hanCmndApi_HandleByte has filled g_st_Msg.
ExampleCmndMessageReceived_Skip == UNCHANGED <<dispatched, rxLog, globals>>

ExampleCmndMessageReceived ==
    /\ dispatched' = dispatched + 1
    /\ rxLog' = g_st_Msg'
    /\ globals' = MessageReceived(app, g_st_Msg', globals, p_CmndMsg_IeGet(g_st_Msg'))

\* ExampleSuccessIndication: LED on for 500 ms.  ExampleFailureIndication(n): n
\* times on for 100 ms.  Both leave the LED off.
ExampleSuccessIndication == <<500>>

ExampleFailureIndication_Once(u8_Count) == <<100>>

ExampleFailureIndication(u8_Count) == [i \in 1 .. u8_Count |-> 100]

\* HAL_StatusTypeDef
HAL_OK == "HAL_OK"
HalStatus == {HAL_OK, "HAL_ERROR", "HAL_BUSY", "HAL_TIMEOUT"}

\* The tail of every send function: write the packet, two short blinks and false
\* if the write failed, true otherwise.
WritePacket_NoIndication(packet, status) ==
    [writes |-> <<[packet |-> packet, status |-> status]>>,
     ret    |-> status = HAL_OK,
     blinks |-> <<>>]

WritePacket(packet, status) ==
    [writes |-> <<[packet |-> packet, status |-> status]>>,
     ret    |-> status = HAL_OK,
     blinks |-> IF status # HAL_OK THEN ExampleFailureIndication(2) ELSE <<>>]

Packet(builder, rc) == [builder |-> builder, rc |-> rc]

\* t_st_hanCmndIeFun as ExampleSendRawFunMessage fills it (the fields that
\* depend on the arguments; memcpy copies u16_DataLen bytes).
IeFunOf(u16_DeviceId, pu8_Data, u16_DataSize) ==
    [u16_SrcDeviceId |-> u16_DeviceId,
     u8_SrcUnitId    |-> DSPG_RAW_DATA_UNIT_NUMBER,
     u16_DstDeviceId |-> 0,
     u8_DstUnitId    |-> 2,
     u16_DataLen     |-> u16_DataSize,
     pu8_Data        |-> SubSeq(pu8_Data, 1, u16_DataSize)]

\* p_Fun_SendReq( &st_Packet, pst_Fun ): the packet of the FUN request for *pst_Fun
p_Fun_SendReq(pst_Fun) == [builder |-> "p_Fun_SendReq", rc |-> "", st_IeFun |-> pst_Fun]

ExampleSendRawFunMessage_NoLimit(u16_DeviceId, pu8_Data, u16_DataSize, status) ==
    WritePacket(p_Fun_SendReq(IeFunOf(u16_DeviceId, pu8_Data, u16_DataSize)), status)

ExampleSendRawFunMessage(u16_DeviceId, pu8_Data, u16_DataSize, status) ==
    IF u16_DataSize > CMND_IE_FUN_MAX_DATA_SIZE
    THEN [writes |-> <<>>, ret |-> FALSE, blinks |-> <<>>]
    ELSE WritePacket(p_Fun_SendReq(IeFunOf(u16_DeviceId, pu8_Data, u16_DataSize)), status)

ExampleSendAlertMessage(status) ==
    WritePacket(Packet("p_Alert_NotifyStatusReq", ""), status)

ExampleSendRegistrationRequestMessage(status) ==
    WritePacket(Packet("p_DeviceManagement_RegisterDeviceReq", ""), status)

ExampleSendVoiceCallStartMessage(status) ==
    WritePacket(Packet("p_VoiceCall_StartCallReq", ""), status)

ExampleSendVoiceCallEndMessage(status) ==
    WritePacket(Packet("p_VoiceCall_EndCallReq", ""), status)

ExampleSendVoiceStartCallResMessage(status) ==
    WritePacket(Packet("p_VoiceCall_StartCallRes", "CMND_RC_OK"), status)

ExampleSendVoiceEndCallResMessage_Twice(status) ==
    LET s == WritePacket(Packet("p_VoiceCall_EndCallRes", "CMND_RC_OK"), status)
    IN  [s EXCEPT !.writes = @ \o @]

ExampleSendVoiceEndCallResMessage(status) ==
    WritePacket(Packet("p_VoiceCall_EndCallRes", "CMND_RC_OK"), status)

\* "Hello, World!"
HelloWorld == <<72, 101, 108, 108, 111, 44, 32, 87, 111, 114, 108, 100, 33>>

\* HAL_GetTick() is a uint32_t that wraps after 2^32 ms.  A tick value v of this
\* model stands for v if v >= 0 and for 2^32 + v if v < 0, so that the values
\* on both sides of the wrap are small numbers.
\* ( u64_CurrentTicks - pst_Button->u64_StartTicks ) > limit, in 64 bits unsigned:
\* both operands are tick values widened to u64, so a current value below the
\* start (the counter has wrapped) gives a difference of nearly 2^64, and a
\* current value before the wrap with a start after it one of nearly 2^32.
ElapsedMoreThan(u64_CurrentTicks, u64_StartTicks, limit) ==
    IF IF (u64_CurrentTicks >= 0) = (u64_StartTicks >= 0)
       THEN u64_CurrentTicks < u64_StartTicks
       ELSE u64_CurrentTicks >= 0
    THEN TRUE
    ELSE IF u64_CurrentTicks < 0 /\ u64_StartTicks >= 0
         THEN TRUE
         ELSE u64_CurrentTicks - u64_StartTicks > limit

\* p_HandleButton: [mv |-> the movement returned, btn |-> *pst_Button after it]
ButtonAtStart == [u64_StartTicks |-> 0, b_Pressed |-> FALSE, en_State |-> "BUTTON_INITIAL"]

p_HandleButton(pst_Button, CurrentState) ==
    LET u64_CurrentTicks == uwTick
    IN  IF CurrentState # pst_Button.b_Pressed
        THEN IF ~pst_Button.b_Pressed /\ CurrentState
             THEN [mv  |-> "BUTTON_NOCHANGE",
                   btn |-> [u64_StartTicks |-> u64_CurrentTicks,
                            b_Pressed |-> CurrentState,
                            en_State |-> "BUTTON_PENDING"]]
             ELSE IF /\ pst_Button.en_State = "BUTTON_PENDING"
                     /\ ElapsedMoreThan(u64_CurrentTicks, pst_Button.u64_StartTicks,
                                        BUTTON_ACTIVE_TIME)
                  THEN [mv  |-> "BUTTON_PRESSED",
                        btn |-> [pst_Button EXCEPT !.en_State = "BUTTON_INITIAL",
                                                   !.b_Pressed = CurrentState]]
                  ELSE [mv  |-> "BUTTON_NOCHANGE",
                        btn |-> [pst_Button EXCEPT !.b_Pressed = CurrentState]]
        ELSE [mv |-> "BUTTON_NOCHANGE", btn |-> pst_Button]

\* The blocks of the infinite loop of ExampleMain, in program order.
LoopOrder(a) ==
    CASE a = "RawData"   -> <<"hello", "linkcfm", "rawfun", "button">>
      [] a = "Alert"     -> <<"hello", "linkcfm", "button">>
      [] a = "VoiceCall" -> <<"hello", "linkcfm", "startind", "startcfm", "endind",
                              "endcfm", "relind", "connind", "button", "blink">>
      [] a = "Register"  -> <<"hello", "linkcfm", "regcfm", "regind", "button">>

After(a, block) ==
    LET order == LoopOrder(a)
        i     == CHOOSE j \in DOMAIN order : order[j] = block
    IN  order[(i % Len(order)) + 1]

AppIdle ==
    /\ app = "RawData"
    /\ mainPc = "start"
    /\ resetN = FALSE
    /\ initCalls = 0
    /\ isrTrace = <<>>
    /\ rxLog = ZeroMsg
    /\ globals = ZeroGlobals
    /\ g_st_Button = ButtonAtStart
    /\ B1_Pressed = FALSE
    /\ uwTick = 0
    /\ LD2 = FALSE
    /\ blinks = <<>>
    /\ uartWrites = <<>>
    /\ sendRet = <<>>
    /\ en_ButtonMovement = "BUTTON_NOCHANGE"

FeedIdle ==
    /\ segments = <<>>
    /\ uartRx = <<>>
    /\ rxArmed = FALSE
    /\ consumed = <<>>
    /\ g_ParserContext = ResetContext
    /\ g_st_Msg = ZeroMsg
    /\ haveMessage = FALSE
    /\ emitted = <<>>
    /\ dispatched = 0

Init ==
    /\ hostLittleEndian \in BOOLEAN
    /\ msgBefore \in OutputsBefore
    /\ pst_cmndApiMsg = msgBefore
    /\ ret = FALSE
    /\ call = NoCall
    /\ \/ /\ pc = "buf"
          /\ m = NoMsg
          /\ pu8_Buffer \in Buffers
       \/ /\ pc = "msg"
          /\ m \in Messages
          /\ pu8_Buffer = <<>>
    /\ FeedIdle
    /\ AppIdle

\* The sender builds the packet buffer of m.
EncodeMsg ==
    /\ pc = "msg"
    /\ pu8_Buffer' = Encode(m)
    /\ pc' = "buf"
    /\ UNCHANGED <<hostLittleEndian, m, msgBefore, pst_cmndApiMsg, ret, call>>
    /\ UNCHANGED feedVars
    /\ UNCHANGED appVars

\* p_CmndPacketParser_ParseCmndApiPacket( &packet, pst_cmndApiMsg )
ParseCall ==
    /\ pc = "buf"
    /\ LET r == ParseCmndApiPacket(
                    [length |-> Len(pu8_Buffer), buffer |-> pu8_Buffer], msgBefore)
       IN  /\ ret' = r.ret
           /\ pst_cmndApiMsg' = r.msg
    /\ pc' = "done"
    /\ UNCHANGED <<hostLittleEndian, m, pu8_Buffer, msgBefore, call>>
    /\ UNCHANGED feedVars
    /\ UNCHANGED appVars

Next == EncodeMsg \/ ParseCall

Spec == Init /\ [][Next]_vars

(***************************************************************************)
(* The UART receive path of the example applications, SpecFeed.            *)
(***************************************************************************)
\* Number of segments of a byte stream.
MaxSegments == 2

FeedHeaders == {ScenarioHeader, <<1, 255, 1, 2, 0, 6>>}

\* Payloads of 0 .. CMNDLIB_API_PACKET_MAX_SIZE bytes.
FeedPayloads ==
    {[i \in 1 .. n |-> IF i = 1 THEN f ELSE 1] :
        n \in 0 .. CMNDLIB_API_PACKET_MAX_SIZE, f \in {1, 255}}

\* Packet buffers whose payload fits the payload array.
FeedBuffers == {h \o d : h \in FeedHeaders, d \in FeedPayloads}

\* A segment of the stream:
\*   frame:    the length field of b, then b
\*   raw:      the bytes of b alone
\*   announce: a length field alone, for a packet buffer of n bytes
\*   trunc:    the length field of a packet buffer of n bytes, then all but its
\*             last byte
TruncBuffers == {ScenarioHeader, ScenarioHeader \o <<255>>}

Segments ==
    {[kind |-> "frame", b |-> b, n |-> Len(b)] : b \in FeedBuffers}
    \cup {[kind |-> "raw", b |-> b, n |-> Len(b)] : b \in FeedBuffers}
    \cup {[kind |-> "trunc", b |-> SubSeq(b, 1, Len(b) - 1), n |-> Len(b)] :
            b \in TruncBuffers}
    \cup {[kind |-> "announce", b |-> <<>>, n |-> n] :
            n \in {CMND_API_PROTOCOL_SIZE_WITHOUT_DATA - 1,
                   CMND_API_PROTOCOL_SIZE_WITHOUT_DATA + CMNDLIB_API_PACKET_MAX_SIZE,
                   CMND_API_PROTOCOL_SIZE_WITHOUT_DATA + CMNDLIB_API_PACKET_MAX_SIZE + 1,
                   U16 - 1}}

Wire(seg) ==
    CASE seg.kind = "frame"    -> LengthField(seg.n) \o seg.b
      [] seg.kind = "raw"      -> seg.b
      [] seg.kind = "announce" -> LengthField(seg.n)
      [] seg.kind = "trunc"    -> LengthField(seg.n) \o seg.b

RECURSIVE WireUpTo(_, _)
\* The bytes of the first k segments.
WireUpTo(segs, k) == IF k = 0 THEN <<>> ELSE WireUpTo(segs, k - 1) \o Wire(segs[k])

FeedInit ==
    /\ hostLittleEndian \in BOOLEAN
    /\ pc = "feed"
    /\ m = NoMsg
    /\ pu8_Buffer = <<>>
    /\ msgBefore = NULL
    /\ pst_cmndApiMsg = NULL
    /\ ret = FALSE
    /\ call = NoCall
    /\ segments \in UNION {[1 .. k -> Segments] : k \in 1 .. MaxSegments}
    /\ app \in Apps
    /\ app # "RawData" => Len(segments) = 1
    /\ uartRx = WireUpTo(segments, Len(segments))
    /\ rxArmed = TRUE
    /\ consumed = <<>>
    /\ g_ParserContext = ResetContext     \* static storage is zero at program start
    /\ g_st_Msg = ZeroMsg
    /\ haveMessage = FALSE
    /\ emitted = <<>>
    /\ dispatched = 0
    /\ mainPc = "start"
    /\ resetN = FALSE
    /\ initCalls = 0
    /\ isrTrace = <<>>
    /\ rxLog = ZeroMsg
    /\ globals = ZeroGlobals
    /\ g_st_Button = ButtonAtStart
    /\ B1_Pressed = FALSE
    /\ uwTick = 0
    /\ LD2 = FALSE
    /\ blinks = <<>>
    /\ uartWrites = <<>>
    /\ sendRet = <<>>
    /\ en_ButtonMovement = "BUTTON_NOCHANGE"

\* The UART of the DU-EB, and another UART of the board.
G_hUart == "G_hUart"
UartHandles == {G_hUart, "other"}

\* ExampleInitParserContext: memset( &g_ParserContext, 0, sizeof(t_stReceiveData) )
ExampleInitParserContext_Skip == UNCHANGED <<g_ParserContext, initCalls>>

ExampleInitParserContext ==
    /\ g_ParserContext' = ResetContext
    /\ initCalls' = initCalls + 1

\* ExampleMain up to the loop: the parser context is initialised, ...
ExampleMainInit ==
    /\ mainPc = "start"
    /\ ExampleInitParserContext
    /\ mainPc' = "release"
    /\ UNCHANGED <<hostLittleEndian, segments, uartRx, rxArmed, consumed, g_st_Msg,
                   haveMessage, emitted, dispatched>>
    /\ UNCHANGED <<app, resetN, isrTrace, rxLog, globals, g_st_Button, B1_Pressed, uwTick, LD2,
                   blinks, uartWrites, sendRet, en_ButtonMovement>>
    /\ UNCHANGED parseVars

\* ... then, after HAL_Delay(100), GPIOA8 is set and the DU-EB starts to boot.
ExampleMainRelease ==
    /\ mainPc = "release"
    /\ resetN' = TRUE
    /\ mainPc' = "hello"
    /\ UNCHANGED <<hostLittleEndian, app, initCalls, isrTrace, rxLog, globals,
                   g_st_Button, B1_Pressed, uwTick, LD2, blinks, uartWrites, sendRet,
                   en_ButtonMovement>>
    /\ UNCHANGED feedVars
    /\ UNCHANGED parseVars

\* The calls of one callback, in program order.
CallbackTrace_RearmFirst(have) ==
    IF have
    THEN <<"p_hanCmndApi_HandleByte", "HAL_UART_Receive_IT", "ExampleCmndMessageReceived">>
    ELSE <<"p_hanCmndApi_HandleByte", "HAL_UART_Receive_IT">>

CallbackTrace(have) ==
    IF have
    THEN <<"p_hanCmndApi_HandleByte", "ExampleCmndMessageReceived", "HAL_UART_Receive_IT">>
    ELSE <<"p_hanCmndApi_HandleByte", "HAL_UART_Receive_IT">>

\* The callback from the return of p_hanCmndApi_HandleByte, which left r.msg in
\* g_st_Msg and returned r.have, to the call of HAL_UART_Receive_IT.
AfterHandleByte(r) ==
    /\ g_st_Msg' = r.msg
    /\ haveMessage' = r.have
    /\ IF r.have
       THEN ExampleCmndMessageReceived
       ELSE UNCHANGED <<dispatched, rxLog, globals>>
    /\ isrTrace' = CallbackTrace(r.have)

\* HAL_UART_RxCpltCallback( huart ): one received byte is in G_u8_UartRxPayload[0].
\* The DU-EB sends nothing while it is held in reset.
RxCpltCallback_Reinit(huart) ==
    IF huart = G_hUart
    THEN /\ rxArmed
         /\ resetN
         /\ uartRx # <<>>
         /\ LET byte == Head(uartRx)
                r    == HandleByte(ResetContext, byte, g_st_Msg)
            IN  /\ g_ParserContext' = r.ctx
                /\ AfterHandleByte(r)
                /\ consumed' = Append(consumed, byte)
                /\ emitted' = IF r.have
                              THEN Append(emitted, [at |-> Len(consumed) + 1, msg |-> r.msg])
                              ELSE emitted
         /\ uartRx' = Tail(uartRx)
         /\ rxArmed' = TRUE
         /\ UNCHANGED <<hostLittleEndian, segments, app, uwTick>>
         /\ UNCHANGED mainVars
         /\ UNCHANGED parseVars
    ELSE UNCHANGED vars

RxCpltCallback_NoRearm(huart) ==
    IF huart = G_hUart
    THEN /\ rxArmed
         /\ resetN
         /\ uartRx # <<>>
         /\ LET byte == Head(uartRx)
                r    == HandleByte(g_ParserContext, byte, g_st_Msg)
            IN  /\ g_ParserContext' = r.ctx
                /\ AfterHandleByte(r)
                /\ consumed' = Append(consumed, byte)
                /\ emitted' = IF r.have
                              THEN Append(emitted, [at |-> Len(consumed) + 1, msg |-> r.msg])
                              ELSE emitted
                /\ rxArmed' = r.have
         /\ uartRx' = Tail(uartRx)
         /\ UNCHANGED <<hostLittleEndian, segments, app, uwTick>>
         /\ UNCHANGED mainVars
         /\ UNCHANGED parseVars
    ELSE UNCHANGED vars

RxCpltCallback(huart) ==
    IF huart = G_hUart
    THEN /\ rxArmed
         /\ resetN
         /\ uartRx # <<>>
         /\ LET byte == Head(uartRx)
                r    == HandleByte(g_ParserContext, byte, g_st_Msg)
            IN  /\ g_ParserContext' = r.ctx
                /\ AfterHandleByte(r)
                /\ consumed' = Append(consumed, byte)
                /\ emitted' = IF r.have
                              THEN Append(emitted, [at |-> Len(consumed) + 1, msg |-> r.msg])
                              ELSE emitted
         /\ uartRx' = Tail(uartRx)
         /\ rxArmed' = TRUE
         /\ UNCHANGED <<hostLittleEndian, segments, app, uwTick>>
         /\ UNCHANGED mainVars
         /\ UNCHANGED parseVars
    ELSE UNCHANGED vars

FeedNext ==
    \/ ExampleMainInit
    \/ ExampleMainRelease
    \/ \E huart \in UartHandles : RxCpltCallback(huart)

SpecFeed == FeedInit /\ [][FeedNext]_vars

(***************************************************************************)
(* The infinite loop of ExampleMain.  One pass runs the blocks of LoopOrder *)
(* in order.  The receive interrupt can come between any two statements; a  *)
(* block that reads a variable the interrupt writes after it has cleared    *)
(* its flag is two steps (the test with the clear, then the "_act" step).   *)
(* HAL_Delay waits on uwTick, which SysTick_Handler advances.               *)
(***************************************************************************)
MaxTick == 11
MaxMessages == 2

\* What a step of the main loop leaves alone in every case.
MainFrame ==
    /\ UNCHANGED <<hostLittleEndian, app, resetN, initCalls, uwTick>>
    /\ UNCHANGED isrVars
    /\ UNCHANGED feedVars
    /\ UNCHANGED parseVars

\* A step that neither blinks nor sends.
Quiet ==
    /\ blinks' = <<>>
    /\ uartWrites' = <<>>
    /\ sendRet' = <<>>

\* A step whose only output is one LED indication; the indication ends LED off.
Indicate(indication) ==
    /\ blinks' = indication
    /\ LD2' = IF indication # <<>> THEN FALSE ELSE LD2
    /\ uartWrites' = <<>>
    /\ sendRet' = <<>>

\* A step that calls one send function, whose result is s.
Sent(s) ==
    /\ uartWrites' = s.writes
    /\ sendRet' = <<s.ret>>
    /\ blinks' = s.blinks

\* if ( flag != 0 ) { ...: the test without the clear
TestAndClear_FlagKept(block, flag, act) ==
    /\ mainPc = block
    /\ UNCHANGED globals
    /\ mainPc' = IF globals[flag] # 0 THEN act ELSE After(app, block)

\* if ( flag != 0 ) { flag = 0; ...: to `act` if the flag was set, else past the block
TestAndClear(block, flag, act) ==
    /\ mainPc = block
    /\ IF globals[flag] # 0
       THEN /\ globals' = [globals EXCEPT ![flag] = 0]
            /\ mainPc' = act
       ELSE /\ UNCHANGED globals
            /\ mainPc' = After(app, block)

LoopHello ==
    /\ TestAndClear("hello", "g_GotHelloInd", "hello_act")
    /\ en_ButtonMovement' = "BUTTON_NOCHANGE"
    /\ Quiet
    /\ UNCHANGED <<g_st_Button, B1_Pressed, LD2>>
    /\ MainFrame

LoopHelloAct ==
    /\ mainPc = "hello_act"
    /\ Indicate(IF globals.g_Registered = 0 THEN ExampleFailureIndication(1) ELSE <<>>)
    /\ mainPc' = After(app, "hello")
    /\ UNCHANGED <<globals, g_st_Button, B1_Pressed, en_ButtonMovement>>
    /\ MainFrame

\* The Register example only clears the flag.
LoopLinkCfm ==
    /\ TestAndClear("linkcfm", "g_GotLinkCfmResponse",
                    IF app = "Register" THEN After(app, "linkcfm") ELSE "linkcfm_act")
    /\ Quiet
    /\ UNCHANGED <<g_st_Button, B1_Pressed, LD2, en_ButtonMovement>>
    /\ MainFrame

\* if ( g_SendResult == 0 ) ExampleSuccessIndication(); else ExampleFailureIndication(3);
ResultIndication(gl) ==
    IF gl.g_SendResult = 0 THEN ExampleSuccessIndication ELSE ExampleFailureIndication(3)

LoopLinkCfmAct ==
    /\ mainPc = "linkcfm_act"
    /\ Indicate(ResultIndication(globals))
    /\ mainPc' = After(app, "linkcfm")
    /\ UNCHANGED <<globals, g_st_Button, B1_Pressed, en_ButtonMovement>>
    /\ MainFrame

LoopRawFun ==
    /\ mainPc = "rawfun"
    /\ IF globals.g_GotRawFunReceiveInd # 0
       THEN /\ globals' = [globals EXCEPT !.g_GotRawFunReceiveInd = 0]
            /\ Indicate(ExampleSuccessIndication)
       ELSE /\ UNCHANGED <<globals, LD2>>
            /\ Quiet
    /\ mainPc' = After(app, "rawfun")
    /\ UNCHANGED <<g_st_Button, B1_Pressed, en_ButtonMovement>>
    /\ MainFrame

LoopRegisterCfm ==
    /\ TestAndClear("regcfm", "g_GotRegisterCfm", "regcfm_act")
    /\ Quiet
    /\ UNCHANGED <<g_st_Button, B1_Pressed, LD2, en_ButtonMovement>>
    /\ MainFrame

LoopRegisterCfmAct ==
    /\ mainPc = "regcfm_act"
    /\ Indicate(ResultIndication(globals))
    /\ mainPc' = After(app, "regcfm")
    /\ UNCHANGED <<globals, g_st_Button, B1_Pressed, en_ButtonMovement>>
    /\ MainFrame

LoopRegisterInd ==
    /\ TestAndClear("regind", "g_GotRegisterInd", "regind_act")
    /\ Quiet
    /\ UNCHANGED <<g_st_Button, B1_Pressed, LD2, en_ButtonMovement>>
    /\ MainFrame

LoopRegisterIndAct ==
    /\ mainPc = "regind_act"
    /\ Indicate(ResultIndication(globals))
    /\ mainPc' = After(app, "regind")
    /\ UNCHANGED <<globals, g_st_Button, B1_Pressed, en_ButtonMovement>>
    /\ MainFrame

LoopVoiceCallStartInd ==
    /\ mainPc = "startind"
    /\ globals' = IF globals.g_GotVoiceCallStartInd # 0
                  THEN [globals EXCEPT !.g_GotVoiceCallStartInd = 0,
                                       !.g_VoiceCallState = "CALL_PENDING",
                                       !.g_EnableBlink = 1]
                  ELSE globals
    /\ mainPc' = After(app, "startind")
    /\ Quiet
    /\ UNCHANGED <<g_st_Button, B1_Pressed, LD2, en_ButtonMovement>>
    /\ MainFrame

LoopVoiceCallStartCfm ==
    /\ mainPc = "startcfm"
    /\ globals' = [globals EXCEPT !.g_GotVoiceCallStartCfm = 0]
    /\ mainPc' = After(app, "startcfm")
    /\ Quiet
    /\ UNCHANGED <<g_st_Button, B1_Pressed, LD2, en_ButtonMovement>>
    /\ MainFrame

LoopVoiceCallEndInd ==
    /\ mainPc = "endind"
    /\ IF globals.g_GotVoiceCallEndInd # 0
       THEN \E status \in HalStatus :
               /\ Sent(ExampleSendVoiceEndCallResMessage(status))
               /\ globals' = [globals EXCEPT !.g_GotVoiceCallEndInd = 0,
                                             !.g_VoiceCallState = "CALL_IDLE",
                                             !.g_EnableBlink = 0]
               /\ LD2' = FALSE
       ELSE /\ Quiet
            /\ UNCHANGED <<globals, LD2>>
    /\ mainPc' = After(app, "endind")
    /\ UNCHANGED <<g_st_Button, B1_Pressed, en_ButtonMovement>>
    /\ MainFrame

LoopVoiceCallEndCfm ==
    /\ mainPc = "endcfm"
    /\ globals' = [globals EXCEPT !.g_GotVoiceCallEndCfm = 0]
    /\ mainPc' = After(app, "endcfm")
    /\ Quiet
    /\ UNCHANGED <<g_st_Button, B1_Pressed, LD2, en_ButtonMovement>>
    /\ MainFrame

LoopVoiceCallRelInd ==
    /\ mainPc = "relind"
    /\ globals' = IF globals.g_GotVoiceCallRelInd # 0
                  THEN [globals EXCEPT !.g_GotVoiceCallRelInd = 0,
                                       !.g_VoiceCallState = "CALL_IDLE"]
                  ELSE globals
    /\ mainPc' = After(app, "relind")
    /\ Quiet
    /\ UNCHANGED <<g_st_Button, B1_Pressed, LD2, en_ButtonMovement>>
    /\ MainFrame

LoopVoiceCallConnInd ==
    /\ mainPc = "connind"
    /\ IF globals.g_GotVoiceCallConnInd # 0
       THEN /\ globals' = [globals EXCEPT !.g_GotVoiceCallConnInd = 0,
                                          !.g_VoiceCallState = "CALL_ACTIVE"]
            /\ Indicate(ExampleSuccessIndication)
       ELSE /\ UNCHANGED <<globals, LD2>>
            /\ Quiet
    /\ mainPc' = After(app, "connind")
    /\ UNCHANGED <<g_st_Button, B1_Pressed, en_ButtonMovement>>
    /\ MainFrame

\* en_ButtonMovement = p_HandleButton( &g_st_Button, !HAL_GPIO_ReadPin( ... ) )
LoopButton ==
    /\ mainPc = "button"
    /\ \E CurrentState \in BOOLEAN :
          LET r == p_HandleButton(g_st_Button, CurrentState)
          IN  /\ B1_Pressed' = CurrentState
              /\ g_st_Button' = r.btn
              /\ en_ButtonMovement' = r.mv
              /\ mainPc' = IF r.mv = "BUTTON_PRESSED"
                           THEN "button_act"
                           ELSE After(app, "button")
    /\ Quiet
    /\ UNCHANGED <<globals, LD2>>
    /\ MainFrame

\* What the VoiceCall example sends on a press of a registered device.
VoiceCallPress_AlwaysStart(gl, status) ==
    ExampleSendVoiceCallStartMessage(status)

VoiceCallPress(gl, status) ==
    CASE gl.g_VoiceCallState = "CALL_IDLE"    -> ExampleSendVoiceCallStartMessage(status)
      [] gl.g_VoiceCallState = "CALL_ACTIVE"  -> ExampleSendVoiceCallEndMessage(status)
      [] gl.g_VoiceCallState = "CALL_PENDING" -> ExampleSendVoiceStartCallResMessage(status)

\* if ( g_Registered ) in the RawData, Alert and VoiceCall examples
PressAllowed_Always(gl) == TRUE

PressAllowed_IfRegistered(gl) == gl.g_Registered # 0

PressAllowed(gl) == app = "Register" \/ gl.g_Registered # 0

\* The body of if ( en_ButtonMovement == BUTTON_PRESSED ).
LoopButtonAct ==
    /\ mainPc = "button_act"
    /\ IF PressAllowed(globals)
       THEN \E status \in HalStatus :
               LET s == CASE app = "RawData" ->
                               ExampleSendRawFunMessage(globals.g_DeviceId, HelloWorld,
                                                        Len(HelloWorld), status)
                          [] app = "Alert" -> ExampleSendAlertMessage(status)
                          [] app = "Register" ->
                               ExampleSendRegistrationRequestMessage(status)
                          [] app = "VoiceCall" -> VoiceCallPress(globals, status)
                   answered == app = "VoiceCall" /\ globals.g_VoiceCallState = "CALL_PENDING"
               IN  /\ Sent(s)
                   /\ globals' = IF answered
                                 THEN [globals EXCEPT !.g_VoiceCallState = "CALL_ACTIVE",
                                                      !.g_EnableBlink = 0]
                                 ELSE globals
                   /\ LD2' = IF answered \/ s.blinks # <<>> THEN FALSE ELSE LD2
       ELSE /\ Indicate(ExampleFailureIndication(1))
            /\ UNCHANGED globals
    /\ mainPc' = After(app, "button")
    /\ UNCHANGED <<g_st_Button, B1_Pressed, en_ButtonMovement>>
    /\ MainFrame

\* The blink block of the VoiceCall example with the LED left as it is.
LoopBlink_LedKept ==
    /\ mainPc = "blink"
    /\ globals' = IF globals.g_EnableBlink # 0
                  THEN [globals EXCEPT !.g_BlinkOn = IF globals.g_BlinkOn # 0 THEN 0 ELSE 1]
                  ELSE globals
    /\ mainPc' = After(app, "blink")
    /\ Quiet
    /\ UNCHANGED <<LD2, g_st_Button, B1_Pressed, en_ButtonMovement>>
    /\ MainFrame

\* if ( g_EnableBlink ): the LED is written from g_BlinkOn, which is then inverted
LoopBlink ==
    /\ mainPc = "blink"
    /\ IF globals.g_EnableBlink # 0
       THEN /\ LD2' = (globals.g_BlinkOn = 0)
            /\ globals' = [globals EXCEPT !.g_BlinkOn = IF globals.g_BlinkOn # 0 THEN 0 ELSE 1]
       ELSE UNCHANGED <<globals, LD2>>
    /\ mainPc' = After(app, "blink")
    /\ Quiet
    /\ UNCHANGED <<g_st_Button, B1_Pressed, en_ButtonMovement>>
    /\ MainFrame

\* SysTick_Handler: HAL_IncTick(), here as many times as have passed since the
\* step before (BUTTON_ACTIVE_TIME ticks or one more).
SysTick_Handler ==
    /\ \E n \in {BUTTON_ACTIVE_TIME, BUTTON_ACTIVE_TIME + 1} :
          /\ uwTick + n <= MaxTick
          /\ uwTick' = uwTick + n
    /\ UNCHANGED <<hostLittleEndian, app, globals>>
    /\ UNCHANGED mainVars
    /\ UNCHANGED isrVars
    /\ UNCHANGED feedVars
    /\ UNCHANGED parseVars

\* The (serviceId, messageId) pairs the DU-EB sends: those an example handles
\* and some that none does.
AppPairs ==
    {<<CMND_SERVICE_ID_GENERAL, CMND_MSG_GENERAL_HELLO_IND>>,
     <<CMND_SERVICE_ID_GENERAL, CMND_MSG_GENERAL_LINK_CFM>>,
     <<CMND_SERVICE_ID_FUN, CMND_MSG_FUN_RECV_IND>>,
     <<CMND_SERVICE_ID_DEVICE_MANAGEMENT, CMND_MSG_DEV_MGNT_REGISTER_DEVICE_CFM>>,
     <<CMND_SERVICE_ID_DEVICE_MANAGEMENT, CMND_MSG_DEV_MGNT_REGISTER_DEVICE_IND>>,
     <<CMND_SERVICE_ID_ULE_VOICE_CALL, CMND_MSG_ULE_CALL_START_IND>>,
     <<CMND_SERVICE_ID_ULE_VOICE_CALL, CMND_MSG_ULE_CALL_START_CFM>>,
     <<CMND_SERVICE_ID_ULE_VOICE_CALL, CMND_MSG_ULE_VOICE_CALL_END_IND>>,
     <<CMND_SERVICE_ID_ULE_VOICE_CALL, CMND_MSG_ULE_VOICE_CALL_END_CFM>>,
     <<CMND_SERVICE_ID_ULE_VOICE_CALL, CMND_MSG_ULE_VOICE_CALL_CONNECTED_IND>>,
     <<CMND_SERVICE_ID_ULE_VOICE_CALL, CMND_MSG_ULE_VOICE_CALL_RELEASE_IND>>,
     <<CMND_SERVICE_ID_FUN, CMND_MSG_GENERAL_HELLO_IND>>,
     <<CMND_SERVICE_ID_FUN, CMND_MSG_GENERAL_LINK_CFM>>,
     <<CMND_SERVICE_ID_GENERAL, CMND_MSG_FUN_RECV_IND>>,
     <<CMND_SERVICE_ID_ULE_VOICE_CALL, CMND_MSG_GENERAL_HELLO_IND>>}

\* A message of the pair p whose payload starts with the byte b (none if b = 0).
AppMessage(p, b) ==
    [ZeroMsg EXCEPT !.serviceId = p[1], !.messageId = p[2],
                    !.dataLength = IF b = 0 THEN 0 ELSE 1,
                    !.data = [i \in DataIdx |-> IF i = 0 THEN b ELSE 0]]

\* Every pair without payload; with an element those whose handler asks
\* p_CmndMsg_IeGet for one.
AppMessages ==
    {AppMessage(p, 0) : p \in AppPairs} \cup
    {AppMessage(p, b) :
        p \in {<<CMND_SERVICE_ID_GENERAL, CMND_MSG_GENERAL_HELLO_IND>>,
               <<CMND_SERVICE_ID_GENERAL, CMND_MSG_GENERAL_LINK_CFM>>,
               <<CMND_SERVICE_ID_FUN, CMND_MSG_FUN_RECV_IND>>,
               <<CMND_SERVICE_ID_DEVICE_MANAGEMENT, CMND_MSG_DEV_MGNT_REGISTER_DEVICE_CFM>>,
               <<CMND_SERVICE_ID_DEVICE_MANAGEMENT, CMND_MSG_DEV_MGNT_REGISTER_DEVICE_IND>>},
        b \in {1, 255}}

\* What p_hanCmndApi_HandleByte can return to the callback: no message yet, or a
\* message of a completed frame in g_st_Msg.
HandleByteResults ==
    {[msg |-> g_st_Msg, have |-> FALSE]} \cup {[msg |-> x, have |-> TRUE] : x \in AppMessages}

\* HAL_UART_RxCpltCallback( huart ), from the return of p_hanCmndApi_HandleByte on.
HAL_UART_RxCpltCallback(huart) ==
    IF huart = G_hUart
    THEN /\ rxArmed
         /\ resetN
         /\ dispatched < MaxMessages
         /\ \E r \in HandleByteResults : AfterHandleByte(r)
         /\ rxArmed' = TRUE
         /\ UNCHANGED <<hostLittleEndian, app, uwTick, segments, uartRx, consumed,
                        g_ParserContext, emitted>>
         /\ UNCHANGED mainVars
         /\ UNCHANGED parseVars
    ELSE UNCHANGED vars

AppInit ==
    /\ hostLittleEndian = TRUE
    /\ pc = "app"
    /\ m = NoMsg
    /\ pu8_Buffer = <<>>
    /\ msgBefore = NULL
    /\ pst_cmndApiMsg = NULL
    /\ ret = FALSE
    /\ call = NoCall
    /\ segments = <<>>
    /\ uartRx = <<>>
    /\ rxArmed = TRUE
    /\ consumed = <<>>
    /\ g_ParserContext = ResetContext
    /\ g_st_Msg = ZeroMsg
    /\ haveMessage = FALSE
    /\ emitted = <<>>
    /\ dispatched = 0
    /\ app \in Apps
    /\ mainPc = "start"
    /\ resetN = FALSE
    /\ initCalls = 0
    /\ isrTrace = <<>>
    /\ rxLog = ZeroMsg
    /\ globals = ZeroGlobals
    /\ g_st_Button = ButtonAtStart
    /\ B1_Pressed = FALSE
    /\ uwTick = 0
    /\ LD2 = FALSE
    /\ blinks = <<>>
    /\ uartWrites = <<>>
    /\ sendRet = <<>>
    /\ en_ButtonMovement = "BUTTON_NOCHANGE"

AppNext ==
    \/ ExampleMainInit
    \/ ExampleMainRelease
    \/ LoopHello
    \/ LoopHelloAct
    \/ LoopLinkCfm
    \/ LoopLinkCfmAct
    \/ LoopRawFun
    \/ LoopRegisterCfm
    \/ LoopRegisterCfmAct
    \/ LoopRegisterInd
    \/ LoopRegisterIndAct
    \/ LoopVoiceCallStartInd
    \/ LoopVoiceCallStartCfm
    \/ LoopVoiceCallEndInd
    \/ LoopVoiceCallEndCfm
    \/ LoopVoiceCallRelInd
    \/ LoopVoiceCallConnInd
    \/ LoopButton
    \/ LoopButtonAct
    \/ LoopBlink
    \/ SysTick_Handler
    \/ \E huart \in UartHandles : HAL_UART_RxCpltCallback(huart)

SpecApp == AppInit /\ [][AppNext]_vars

\* ExampleMain: the steps of main(), as opposed to those of the interrupts.
\* while ( 1 ) has no exit and every block of the loop ends, so the loop goes on
\* as long as the processor runs.
ExampleMain ==
    \/ ExampleMainInit
    \/ ExampleMainRelease
    \/ LoopHello
    \/ LoopHelloAct
    \/ LoopLinkCfm
    \/ LoopLinkCfmAct
    \/ LoopRawFun
    \/ LoopRegisterCfm
    \/ LoopRegisterCfmAct
    \/ LoopRegisterInd
    \/ LoopRegisterIndAct
    \/ LoopVoiceCallStartInd
    \/ LoopVoiceCallStartCfm
    \/ LoopVoiceCallEndInd
    \/ LoopVoiceCallEndCfm
    \/ LoopVoiceCallRelInd
    \/ LoopVoiceCallConnInd
    \/ LoopButton
    \/ LoopButtonAct
    \/ LoopBlink

\* The applications with at most MaxEvents messages from the DU-EB, and a main
\* loop that keeps running.
MaxEvents == 1

EventsNext ==
    \/ ExampleMain
    \/ SysTick_Handler
    \/ /\ dispatched < MaxEvents
       /\ \E huart \in UartHandles : HAL_UART_RxCpltCallback(huart)

SpecAppFair == AppInit /\ [][EventsNext]_vars /\ WF_vars(ExampleMain)

(***************************************************************************)
(* The message builders of CmndLib (CmndMsg_*.c) and ExampleSendRawFunMessage,*)
(* each as a function of its arguments (specification SpecLib).  A builder  *)
(* fills *pst_hanCmndApiMsg; the ones that carry an information element     *)
(* build an IE list over its data field.                                    *)
(***************************************************************************)
\* What p_hanIeList_CreateEmpty followed by one add (p_hanCmndApi_Ie...Add,
\* p_hanIeList_AddIeSimple) leaves: the result of the add and the bytes of the
\* list, at most sizeof( data ) of them.  The IE list and the encoders are not
\* part of the sources, so every outcome is taken.
IeAdds ==
    {[ok |-> o, list |-> [i \in 1 .. n |-> 9]] :
        o \in BOOLEAN, n \in 0 .. CMNDLIB_API_PACKET_MAX_SIZE}

\* The tail of a builder that carries an element: the list is built in place
\* (its bytes are the first bytes of data), dataLength is
\* p_hanIeList_GetListSize( &st_IeList ), the result is ok.
WithIe_StaleLength(msg, add) ==
    [ret |-> add.ok,
     msg |-> [msg EXCEPT !.data = [i \in DataIdx |->
                            IF i < Len(add.list) THEN add.list[i + 1] ELSE msg.data[i]]]]

WithIe(msg, add) ==
    [ret |-> add.ok,
     msg |-> [msg EXCEPT !.data = [i \in DataIdx |->
                            IF i < Len(add.list) THEN add.list[i + 1] ELSE msg.data[i]],
                         !.dataLength = Len(add.list) % U16]]

\* The tail of a builder without payload.
NoPayload_LengthKept(msg) == [ret |-> TRUE, msg |-> msg]

NoPayload(msg) == [ret |-> TRUE, msg |-> [msg EXCEPT !.dataLength = 0]]

p_CmndMsg_Fun_CreateSendReq_StaleLength(pst_hanCmndApiMsg, add) ==
    WithIe_StaleLength([pst_hanCmndApiMsg EXCEPT !.serviceId = CMND_SERVICE_ID_FUN,
                                                 !.messageId = CMND_MSG_FUN_SEND_REQ,
                                                 !.unitId = 0], add)

p_CmndMsg_Fun_CreateSendReq(pst_hanCmndApiMsg, add) ==
    WithIe([pst_hanCmndApiMsg EXCEPT !.serviceId = CMND_SERVICE_ID_FUN,
                                     !.messageId = CMND_MSG_FUN_SEND_REQ,
                                     !.unitId = 0], add)

p_CmndMsg_System_CreateBatteryMeasureGetReq(pst_hanCmndApiMsg, add) ==
    WithIe([pst_hanCmndApiMsg EXCEPT !.serviceId = CMND_SERVICE_ID_SYSTEM,
                                     !.messageId = CMND_MSG_SYS_BATTERY_MEASURE_GET_REQ,
                                     !.unitId = 0], add)

p_CmndMsg_System_CreateRssiGetReq(pst_hanCmndApiMsg) ==
    NoPayload([pst_hanCmndApiMsg EXCEPT !.serviceId = CMND_SERVICE_ID_SYSTEM,
                                        !.messageId = CMND_MSG_SYS_RSSI_GET_REQ,
                                        !.unitId = 0])

p_CmndMsg_System_CreateBatteryIndEnableReq(pst_hanCmndApiMsg) ==
    NoPayload([pst_hanCmndApiMsg EXCEPT !.serviceId = CMND_SERVICE_ID_SYSTEM,
                                        !.messageId = CMND_MSG_SYS_BATTERY_IND_ENABLE_REQ,
                                        !.unitId = 0])

p_CmndMsg_System_CreateBatteryIndDisableReq(pst_hanCmndApiMsg) ==
    NoPayload([pst_hanCmndApiMsg EXCEPT !.serviceId = CMND_SERVICE_ID_SYSTEM,
                                        !.messageId = CMND_MSG_SYS_BATTERY_IND_DISABLE_REQ,
                                        !.unitId = 0])

p_CmndMsg_System_CreateResetReq_LengthKept(pst_hanCmndApiMsg) ==
    NoPayload_LengthKept([pst_hanCmndApiMsg EXCEPT !.serviceId = CMND_SERVICE_ID_SYSTEM,
                                                   !.messageId = CMND_MSG_SYS_RESET_REQ,
                                                   !.unitId = 0])

p_CmndMsg_System_CreateResetReq(pst_hanCmndApiMsg) ==
    NoPayload([pst_hanCmndApiMsg EXCEPT !.serviceId = CMND_SERVICE_ID_SYSTEM,
                                        !.messageId = CMND_MSG_SYS_RESET_REQ,
                                        !.unitId = 0])

\* pst_baseWanted is NULL or points to the wanted base.
p_Cmnd_DeviceManagement_CreateRegisterDeviceReq(pst_hanCmndApiMsg, pst_baseWanted, add) ==
    LET msg == [pst_hanCmndApiMsg EXCEPT
                    !.serviceId = CMND_SERVICE_ID_DEVICE_MANAGEMENT,
                    !.messageId = CMND_MSG_DEV_MGNT_REGISTER_DEVICE_REQ,
                    !.unitId = 0]
    IN  IF ~IsNull(pst_baseWanted)
        THEN WithIe(msg, add)
        ELSE [ret |-> TRUE, msg |-> [msg EXCEPT !.dataLength = 0]]

p_Cmnd_DeviceManagement_CreateDeregisterDeviceReq(pst_hanCmndApiMsg) ==
    NoPayload([pst_hanCmndApiMsg EXCEPT
                   !.serviceId = CMND_SERVICE_ID_DEVICE_MANAGEMENT,
                   !.messageId = CMND_MSG_DEV_MGNT_DEREGISTER_DEVICE_REQ,
                   !.unitId = 0])

p_CmndMsg_TamperAlert_CreateSendNotifyStatusReq_UnitIdSet(pst_hanCmndApiMsg, u8_UnitId, add) ==
    WithIe([pst_hanCmndApiMsg EXCEPT
                !.serviceId = CMND_SERVICE_ID_TAMPER_ALERT,
                !.messageId = CMND_MSG_TAMPER_ALERT_NOTIFY_STATUS_REQ,
                !.unitId = u8_UnitId], add)

\* The two TamperAlert builders do not use u8_UnitId.
p_CmndMsg_TamperAlert_CreateSendNotifyStatusReq(pst_hanCmndApiMsg, u8_UnitId, add) ==
    WithIe([pst_hanCmndApiMsg EXCEPT
                !.serviceId = CMND_SERVICE_ID_TAMPER_ALERT,
                !.messageId = CMND_MSG_TAMPER_ALERT_NOTIFY_STATUS_REQ], add)

p_CmndMsg_TamperAlert_CreateSendNotifyStatusRes(pst_hanCmndApiMsg, u8_UnitId, add) ==
    WithIe([pst_hanCmndApiMsg EXCEPT
                !.serviceId = CMND_SERVICE_ID_TAMPER_ALERT,
                !.messageId = CMND_MSG_TAMPER_ALERT_NOTIFY_STATUS_RES], add)

p_CmndMsg_Alert_CreateNotifyStatusReq(pst_hanCmndApiMsg, u8_UnitId, add) ==
    WithIe([pst_hanCmndApiMsg EXCEPT !.serviceId = CMND_SERVICE_ID_ALERT,
                                     !.messageId = CMND_MSG_ALERT_NOTIFY_STATUS_REQ,
                                     !.unitId = u8_UnitId], add)

p_CmndMsg_Alert_CreateNotifyStatusRes(pst_hanCmndApiMsg, u8_UnitId, add) ==
    WithIe([pst_hanCmndApiMsg EXCEPT !.serviceId = CMND_SERVICE_ID_ALERT,
                                     !.messageId = CMND_MSG_ALERT_NOTIFY_STATUS_RES,
                                     !.unitId = u8_UnitId], add)

UnitIds == {0, DSPG_RAW_DATA_UNIT_NUMBER, U8 - 1}

\* A builder has run on the caller's message with the arguments `args` and
\* left r.
Built(fn, args, r) ==
    /\ pc = "lib"
    /\ pc' = "called"
    /\ call' = [fn |-> fn, args |-> args]
    /\ pst_cmndApiMsg' = r.msg
    /\ ret' = r.ret
    /\ UNCHANGED <<hostLittleEndian, m, pu8_Buffer, msgBefore>>
    /\ UNCHANGED feedVars
    /\ UNCHANGED appVars

\* A caller's buffer of n bytes.
RawBytes(n) == [i \in 1 .. n |-> i % U8]

\* ExampleSendRawFunMessage( u16_DeviceId, pu8_Data, u16_DataSize ), with data
\* sizes around the limit and up to the largest u16.
SendRawFunMessage ==
    /\ pc = "lib"
    /\ pc' = "called"
    /\ \E u16_DeviceId \in {0, U16 - 1},
          u16_DataSize \in {0, 1, Len(HelloWorld), CMND_IE_FUN_MAX_DATA_SIZE - 1,
                            CMND_IE_FUN_MAX_DATA_SIZE, CMND_IE_FUN_MAX_DATA_SIZE + 1,
                            U8, U16 - 1},
          status \in HalStatus :
          LET s == ExampleSendRawFunMessage(u16_DeviceId, RawBytes(u16_DataSize),
                                            u16_DataSize, status)
          IN  /\ call' = [fn |-> "ExampleSendRawFunMessage",
                          args |-> [u16_DeviceId |-> u16_DeviceId,
                                    u16_DataSize |-> u16_DataSize]]
              /\ Sent(s)
              /\ LD2' = IF s.blinks # <<>> THEN FALSE ELSE LD2
    /\ UNCHANGED <<hostLittleEndian, m, pu8_Buffer, msgBefore, pst_cmndApiMsg, ret>>
    /\ UNCHANGED <<app, mainPc, resetN, initCalls, isrTrace, rxLog, globals, g_st_Button,
                   B1_Pressed, uwTick, en_ButtonMovement>>
    /\ UNCHANGED feedVars

\* Before the call: the caller's message is zeroed or holds an earlier message;
\* the RawData example is in the body of a press.
LibInit ==
    /\ hostLittleEndian = TRUE
    /\ pc = "lib"
    /\ m = NoMsg
    /\ pu8_Buffer = <<>>
    /\ msgBefore \in {ZeroMsg, DirtyMsg}
    /\ pst_cmndApiMsg = msgBefore
    /\ ret = FALSE
    /\ call = NoCall
    /\ LD2 \in BOOLEAN
    /\ FeedIdle
    /\ app = "RawData"
    /\ mainPc = "button_act"
    /\ resetN = TRUE
    /\ initCalls = 1
    /\ isrTrace = <<>>
    /\ rxLog = ZeroMsg
    /\ globals = ZeroGlobals
    /\ g_st_Button = ButtonAtStart
    /\ B1_Pressed = FALSE
    /\ uwTick = 0
    /\ blinks = <<>>
    /\ uartWrites = <<>>
    /\ sendRet = <<>>
    /\ en_ButtonMovement = "BUTTON_PRESSED"

\* One call of a builder (a pointer to an element is [null |-> FALSE], a builder
\* with no argument but the message has args = NoCall) or of the send function.
LibNext ==
    \/ \E add \in IeAdds :
          Built("p_CmndMsg_Fun_CreateSendReq", [add |-> add],
                p_CmndMsg_Fun_CreateSendReq(msgBefore, add))
    \/ \E add \in IeAdds :
          Built("p_CmndMsg_System_CreateBatteryMeasureGetReq", [add |-> add],
                p_CmndMsg_System_CreateBatteryMeasureGetReq(msgBefore, add))
    \/ Built("p_CmndMsg_System_CreateRssiGetReq", NoCall,
             p_CmndMsg_System_CreateRssiGetReq(msgBefore))
    \/ Built("p_CmndMsg_System_CreateBatteryIndEnableReq", NoCall,
             p_CmndMsg_System_CreateBatteryIndEnableReq(msgBefore))
    \/ Built("p_CmndMsg_System_CreateBatteryIndDisableReq", NoCall,
             p_CmndMsg_System_CreateBatteryIndDisableReq(msgBefore))
    \/ Built("p_CmndMsg_System_CreateResetReq", NoCall,
             p_CmndMsg_System_CreateResetReq(msgBefore))
    \/ \E pst_baseWanted \in {NULL, [null |-> FALSE]}, add \in IeAdds :
          Built("p_Cmnd_DeviceManagement_CreateRegisterDeviceReq",
                [pst_baseWanted |-> pst_baseWanted, add |-> add],
                p_Cmnd_DeviceManagement_CreateRegisterDeviceReq(msgBefore, pst_baseWanted,
                                                                add))
    \/ Built("p_Cmnd_DeviceManagement_CreateDeregisterDeviceReq", NoCall,
             p_Cmnd_DeviceManagement_CreateDeregisterDeviceReq(msgBefore))
    \/ \E u8_UnitId \in UnitIds, add \in IeAdds :
          Built("p_CmndMsg_TamperAlert_CreateSendNotifyStatusReq",
                [u8_UnitId |-> u8_UnitId, add |-> add],
                p_CmndMsg_TamperAlert_CreateSendNotifyStatusReq(msgBefore, u8_UnitId, add))
    \/ \E u8_UnitId \in UnitIds, add \in IeAdds :
          Built("p_CmndMsg_TamperAlert_CreateSendNotifyStatusRes",
                [u8_UnitId |-> u8_UnitId, add |-> add],
                p_CmndMsg_TamperAlert_CreateSendNotifyStatusRes(msgBefore, u8_UnitId, add))
    \/ \E u8_UnitId \in UnitIds, add \in IeAdds :
          Built("p_CmndMsg_Alert_CreateNotifyStatusReq",
                [u8_UnitId |-> u8_UnitId, add |-> add],
                p_CmndMsg_Alert_CreateNotifyStatusReq(msgBefore, u8_UnitId, add))
    \/ \E u8_UnitId \in UnitIds, add \in IeAdds :
          Built("p_CmndMsg_Alert_CreateNotifyStatusRes",
                [u8_UnitId |-> u8_UnitId, add |-> add],
                p_CmndMsg_Alert_CreateNotifyStatusRes(msgBefore, u8_UnitId, add))
    \/ SendRawFunMessage

SpecLib == LibInit /\ [][LibNext]_vars

(***************************************************************************)
(* p_HandleButton on its own, around the wrap of the tick counter: the      *)
(* main loop polls the button while SysTick counts single ticks.            *)
(***************************************************************************)
\* HAL_IncTick(): one tick more (modulo 2^32, see ElapsedMoreThan).
HAL_IncTick ==
    /\ uwTick < MaxTick
    /\ uwTick' = uwTick + 1
    /\ UNCHANGED <<hostLittleEndian, app, globals>>
    /\ UNCHANGED mainVars
    /\ UNCHANGED isrVars
    /\ UNCHANGED feedVars
    /\ UNCHANGED parseVars

\* en_ButtonMovement = p_HandleButton( &g_st_Button, !HAL_GPIO_ReadPin( ... ) )
ButtonPoll ==
    /\ \E CurrentState \in BOOLEAN :
          LET r == p_HandleButton(g_st_Button, CurrentState)
          IN  /\ B1_Pressed' = CurrentState
              /\ g_st_Button' = r.btn
              /\ en_ButtonMovement' = r.mv
    /\ UNCHANGED <<mainPc, globals, LD2, blinks, uartWrites, sendRet>>
    /\ MainFrame

\* The main loop at its button block, at program start or MaxTick ticks before
\* the tick counter wraps (after 2^32 ms of running).
ButtonInit ==
    /\ hostLittleEndian = TRUE
    /\ pc = "button"
    /\ m = NoMsg
    /\ pu8_Buffer = <<>>
    /\ msgBefore = NULL
    /\ pst_cmndApiMsg = NULL
    /\ ret = FALSE
    /\ call = NoCall
    /\ segments = <<>>
    /\ uartRx = <<>>
    /\ rxArmed = TRUE
    /\ consumed = <<>>
    /\ g_ParserContext = ResetContext
    /\ g_st_Msg = ZeroMsg
    /\ haveMessage = FALSE
    /\ emitted = <<>>
    /\ dispatched = 0
    /\ app \in Apps
    /\ mainPc = "button"
    /\ resetN = TRUE
    /\ initCalls = 1
    /\ isrTrace = <<>>
    /\ rxLog = ZeroMsg
    /\ globals = ZeroGlobals
    /\ g_st_Button = ButtonAtStart
    /\ B1_Pressed = FALSE
    /\ uwTick \in {0, -MaxTick}
    /\ LD2 = FALSE
    /\ blinks = <<>>
    /\ uartWrites = <<>>
    /\ sendRet = <<>>
    /\ en_ButtonMovement = "BUTTON_NOCHANGE"

ButtonNext ==
    \/ HAL_IncTick
    \/ ButtonPoll

SpecButton == ButtonInit /\ [][ButtonNext]_vars

(***************************************************************************)
(* Properties of the whole-buffer parser, checked under Spec.              *)
(***************************************************************************)
Parsed == pc = "done"
HeaderSize == CMND_API_PROTOCOL_SIZE_WITHOUT_DATA
AllZero(data) == \A i \in DataIdx : data[i] = 0

\* The message the protocol's field table assigns to a buffer of >= 6 bytes.
FieldsOf(buf) ==
    [cookie |-> buf[1], unitId |-> buf[2], serviceId |-> buf[3] * 256 + buf[4],
     messageId |-> buf[5], checkSum |-> buf[6]]

HeaderFieldsOf(msg) ==
    [cookie |-> msg.cookie, unitId |-> msg.unitId, serviceId |-> msg.serviceId,
     messageId |-> msg.messageId, checkSum |-> msg.checkSum]

\* C1: the parser returns false for every buffer shorter than the fixed header
\* (lengths 0 .. headerSize - 1), whatever its bytes and whatever the output held.
C1_TooShortFails ==
    (Parsed /\ Len(pu8_Buffer) < HeaderSize) => ret = FALSE

C1_Witness ==
    /\ Parsed
    /\ Len(pu8_Buffer) = HeaderSize - 1
    /\ ~IsNull(msgBefore)
    /\ pu8_Buffer[1] # 0
    /\ ret = FALSE

\* C2: on a buffer of exactly headerSize bytes (and a non-null output) the parser
\* returns true with every header field decoded, dataLength = 0 and an all-zero
\* payload array.
C2_HeaderOnlySucceeds ==
    (Parsed /\ Len(pu8_Buffer) = HeaderSize /\ ~IsNull(msgBefore)) =>
        /\ ret = TRUE
        /\ HeaderFieldsOf(pst_cmndApiMsg) = FieldsOf(pu8_Buffer)
        /\ pst_cmndApiMsg.dataLength = 0
        /\ AllZero(pst_cmndApiMsg.data)

C2_Witness ==
    /\ Parsed
    /\ Len(pu8_Buffer) = HeaderSize
    /\ msgBefore = DirtyMsg
    /\ ret = TRUE
    /\ pst_cmndApiMsg.dataLength = 0

\* C3: for a buffer of at least headerSize bytes (and a non-null output) the parser
\* fails exactly when length - headerSize >= CMNDLIB_API_PACKET_MAX_SIZE, and when
\* it fails for that reason the payload array holds no buffer byte (it is all zero).
C3_PayloadTooLargeFails ==
    (Parsed /\ Len(pu8_Buffer) >= HeaderSize /\ ~IsNull(msgBefore)) =>
        /\ ret = FALSE <=>
              Len(pu8_Buffer) - HeaderSize >= CMNDLIB_API_PACKET_MAX_SIZE
        /\ ret = FALSE => AllZero(pst_cmndApiMsg.data)

C3_Witness ==
    /\ Parsed
    /\ Len(pu8_Buffer) = HeaderSize + CMNDLIB_API_PACKET_MAX_SIZE
    /\ ~IsNull(msgBefore)
    /\ pu8_Buffer[HeaderSize + 1] # 0
    /\ ret = FALSE
    /\ AllZero(pst_cmndApiMsg.data)

\* C4: every accepted buffer decodes to cookie = byte 0, unitId = byte 1,
\* serviceId = byte 2 * 256 + byte 3, messageId = byte 4, checksum = byte 5, on
\* hosts of either byte order; the header AA 03 00 01 05 7A decodes to cookie 0xAA,
\* unitId 3, serviceId 1, messageId 5, checksum 0x7A, dataLength 0.
C4_FieldOffsets ==
    /\ (Parsed /\ ret = TRUE) =>
            HeaderFieldsOf(pst_cmndApiMsg) = FieldsOf(pu8_Buffer)
    /\ (Parsed /\ pu8_Buffer = ScenarioHeader /\ ~IsNull(msgBefore)) =>
            /\ ret = TRUE
            /\ pst_cmndApiMsg =
                 [cookie |-> 170, unitId |-> 3, serviceId |-> 1, messageId |-> 5,
                  checkSum |-> 122, dataLength |-> 0, data |-> [i \in DataIdx |-> 0]]

C4_Witness ==
    /\ Parsed
    /\ pu8_Buffer = ScenarioHeader
    /\ hostLittleEndian
    /\ ret = TRUE
    /\ pst_cmndApiMsg.serviceId = 1

C6_FailureLeavesOutputUntouched ==
    (Parsed /\ ret = FALSE) => pst_cmndApiMsg = msgBefore

\* C7 as stated: every valid message with dataLength <= CMNDLIB_API_PACKET_MAX_SIZE
\* survives encoding and parsing unchanged.
C7_RoundTripUpToMax ==
    (Parsed /\ m # NoMsg /\ ~IsNull(msgBefore)) =>
        (ret = TRUE /\ pst_cmndApiMsg = m)

\* C7 amended: every valid message with dataLength < CMNDLIB_API_PACKET_MAX_SIZE
\* survives encoding and parsing unchanged; with dataLength equal to
\* CMNDLIB_API_PACKET_MAX_SIZE the parser returns false.
C7_RoundTripBelowMax ==
    (Parsed /\ m # NoMsg /\ ~IsNull(msgBefore)) =>
        IF m.dataLength < CMNDLIB_API_PACKET_MAX_SIZE
        THEN ret = TRUE /\ pst_cmndApiMsg = m
        ELSE ret = FALSE

C7_Witness ==
    /\ Parsed
    /\ m # NoMsg
    /\ msgBefore = DirtyMsg
    /\ m.dataLength = CMNDLIB_API_PACKET_MAX_SIZE - 1
    /\ m.dataLength > 0
    /\ m.serviceId = 258
    /\ ret = TRUE
    /\ pst_cmndApiMsg = m

SegStart(k) == Len(WireUpTo(segments, k - 1))
SegEnd(k)   == Len(WireUpTo(segments, k))

\* A length field that announces less than a header or more than a full payload.
Rejected(seg) ==
    /\ seg.kind = "announce"
    /\ \/ seg.n < CMND_API_PROTOCOL_SIZE_WITHOUT_DATA
       \/ seg.n > CMND_API_PROTOCOL_SIZE_WITHOUT_DATA + CMNDLIB_API_PACKET_MAX_SIZE

\* Every segment before k is a whole frame or a rejected length field, so segment
\* k meets the framer in its reset state.
CleanBefore(k) ==
    \A j \in 1 .. (k - 1) : segments[j].kind = "frame" \/ Rejected(segments[j])

\* The completed messages reported while the bytes of segment k were consumed.
ReportedIn(k) == {i \in DOMAIN emitted : SegStart(k) < emitted[i].at /\ emitted[i].at <= SegEnd(k)}

\* What the whole-buffer parser returns for b.
WholeBuffer(b) == ParseCmndPacket(Len(b), b, ZeroMsg)

Oversized(seg) ==
    /\ seg.kind = "announce"
    /\ seg.n - CMND_API_PROTOCOL_SIZE_WITHOUT_DATA > CMNDLIB_API_PACKET_MAX_SIZE

Corrupted(seg) == seg.kind = "trunc" \/ Rejected(seg)

\* The completed messages reported after the bytes of segments 1 .. k-1.
ReportedFrom(k) == {i \in DOMAIN emitted : SegStart(k) < emitted[i].at}

HandleByteCalls == {i \in DOMAIN isrTrace : isrTrace[i] = "p_hanCmndApi_HandleByte"}

\* C13: in every example the parser context is zeroed, once, before the reset line
\* of the DU-EB is released, so no byte is fed before that; afterwards every
\* received byte of G_hUart makes the callback call the framer exactly once, on
\* g_ParserContext, and the application does not zero the context again.
C13_ContextLifecycle ==
    /\ initCalls <= 1
    /\ mainPc # "start" => initCalls = 1
    /\ resetN => initCalls = 1
    /\ consumed # <<>> => (resetN /\ initCalls = 1)
    /\ isrTrace # <<>> => Cardinality(HandleByteCalls) = 1
    /\ consumed = <<>> => isrTrace = <<>>

C13_Witness ==
    /\ app = "VoiceCall"
    /\ initCalls = 1
    /\ resetN
    /\ Len(consumed) = CMND_API_PROTOCOL_LENGTH_SIZE + 1
    /\ g_ParserContext.received = <<consumed[Len(consumed)]>>
    /\ isrTrace = CallbackTrace(FALSE)

HandlerRan == dispatched' # dispatched

\* The step is one of the main loop that leaves the position `at`.
MainLeaves(at) == mainPc = at /\ mainPc' # at

WithRegistrationCheck == {"RawData", "Alert", "VoiceCall"}

\* C16: the handler runs only in a callback whose framer call returned a message,
\* and reads that message; in the RawData example a message whose
\* (serviceId, messageId) is none of GENERAL/HELLO_IND, GENERAL/LINK_CFM and
\* FUN/RECV_IND leaves every static variable of the application as it was (flags,
\* g_Registered, g_DeviceId, g_SendResult, g_RawData and its length); a callback
\* without a message changes none of them either.
C16_HandlerDispatch ==
    [][ /\ HandlerRan =>
              /\ haveMessage'
              /\ dispatched' = dispatched + 1
              /\ rxLog' = g_st_Msg'
              /\ isrTrace'[2] = "ExampleCmndMessageReceived"
        /\ (~HandlerRan /\ mainPc' = mainPc) => globals' = globals
        /\ (/\ app = "RawData"
            /\ HandlerRan
            /\ <<rxLog'.serviceId, rxLog'.messageId>> \notin
                  {<<CMND_SERVICE_ID_GENERAL, CMND_MSG_GENERAL_HELLO_IND>>,
                   <<CMND_SERVICE_ID_GENERAL, CMND_MSG_GENERAL_LINK_CFM>>,
                   <<CMND_SERVICE_ID_FUN, CMND_MSG_FUN_RECV_IND>>}) => globals' = globals
      ]_vars

C16_Witness ==
    /\ app = "RawData"
    /\ dispatched = 2
    /\ haveMessage
    /\ rxLog.serviceId = CMND_SERVICE_ID_FUN
    /\ rxLog.messageId = CMND_MSG_GENERAL_LINK_CFM
    /\ globals.g_GotHelloInd = 1
    /\ globals.g_Registered = 1
    /\ globals.g_GotLinkCfmResponse = 0
    /\ globals.g_GotRawFunReceiveInd = 0

\* C17: in RawData, Alert and VoiceCall, when the main loop finds
\* g_GotLinkCfmResponse set it clears it and then gives one indication, a long
\* blink (500 ms) if g_SendResult is 0 and three short ones (100 ms) otherwise,
\* and goes on to the next block; it gives none when the flag is clear.
C17_LinkCfmIndication ==
    [][ (app \in WithRegistrationCheck) =>
          /\ MainLeaves("linkcfm") =>
                /\ globals'.g_GotLinkCfmResponse = 0
                /\ blinks' = <<>>
                /\ mainPc' = IF globals.g_GotLinkCfmResponse # 0
                             THEN "linkcfm_act"
                             ELSE After(app, "linkcfm")
          /\ MainLeaves("linkcfm_act") =>
                /\ blinks' = IF globals.g_SendResult = 0
                             THEN <<500>>
                             ELSE <<100, 100, 100>>
                /\ ~LD2'
                /\ uartWrites' = <<>>
                /\ globals' = globals
                /\ mainPc' = After(app, "linkcfm")
      ]_vars

C17_Witness ==
    /\ app = "VoiceCall"
    /\ mainPc = "startind"
    /\ blinks = <<100, 100, 100>>
    /\ globals.g_SendResult # 0
    /\ globals.g_GotLinkCfmResponse = 0
    /\ dispatched = 1

\* The packets that are requests of the device.
Requests ==
    {"p_Fun_SendReq", "p_Alert_NotifyStatusReq", "p_VoiceCall_StartCallReq",
     "p_VoiceCall_EndCallReq"}

\* C18: in RawData, Alert and VoiceCall the body of the press runs only on a
\* detected press; with g_Registered = 0 it writes nothing to the UART and gives
\* one short blink (100 ms); no step of the program writes a request to the UART
\* when g_Registered = 0.
C18_PressWhenNotRegistered ==
    [][ (app \in WithRegistrationCheck) =>
          /\ MainLeaves("button_act") =>
                /\ en_ButtonMovement = "BUTTON_PRESSED"
                /\ globals.g_Registered = 0 =>
                      /\ uartWrites' = <<>>
                      /\ sendRet' = <<>>
                      /\ blinks' = <<100>>
                      /\ globals' = globals
                /\ globals.g_Registered # 0 => Len(uartWrites') = 1
          /\ \A i \in DOMAIN uartWrites' :
                (mainPc' # mainPc /\ uartWrites'[i].packet.builder \in Requests)
                    => globals.g_Registered # 0
      ]_vars

C18_Witness ==
    /\ app = "Alert"
    /\ mainPc = "hello"
    /\ en_ButtonMovement = "BUTTON_PRESSED"
    /\ globals.g_Registered = 0
    /\ uartWrites = <<>>
    /\ blinks = <<100>>

\* C19: a step that calls a send function makes one UART write; the function
\* returns whether the write returned HAL_OK, blinks twice (100 ms) if it did
\* not and not at all if it did; after a failed write the button state is as
\* before and the static variables are what the caller's own assignments make
\* of them (none but in the two VoiceCall blocks that answer).
C19_SendResult ==
    [][ (mainPc' # mainPc /\ uartWrites' # <<>>) =>
          /\ Len(uartWrites') = 1
          /\ Len(sendRet') = 1
          /\ sendRet'[1] = (uartWrites'[1].status = "HAL_OK")
          /\ blinks' = IF uartWrites'[1].status = "HAL_OK" THEN <<>> ELSE <<100, 100>>
          /\ uartWrites'[1].status # "HAL_OK" =>
                /\ ~LD2'
                /\ g_st_Button' = g_st_Button
                /\ globals' =
                     CASE mainPc = "endind" ->
                             [globals EXCEPT !.g_GotVoiceCallEndInd = 0,
                                             !.g_VoiceCallState = "CALL_IDLE",
                                             !.g_EnableBlink = 0]
                       [] mainPc = "button_act" /\ app = "VoiceCall"
                                                /\ globals.g_VoiceCallState = "CALL_PENDING" ->
                             [globals EXCEPT !.g_VoiceCallState = "CALL_ACTIVE",
                                             !.g_EnableBlink = 0]
                       [] OTHER -> globals
      ]_vars

C19_Witness ==
    /\ app = "Register"
    /\ mainPc = "hello"
    /\ Len(uartWrites) = 1
    /\ uartWrites[1].packet.builder = "p_DeviceManagement_RegisterDeviceReq"
    /\ uartWrites[1].status = "HAL_BUSY"
    /\ sendRet = <<FALSE>>
    /\ blinks = <<100, 100>>
    /\ globals = ZeroGlobals

\* C20: in VoiceCall the body of a press with g_Registered # 0 makes one UART
\* write: in CALL_IDLE the start-call request, in CALL_ACTIVE the end-call
\* request, both leaving the static variables as they are; in CALL_PENDING the
\* start-call response with CMND_RC_OK, and then the state is CALL_ACTIVE,
\* g_EnableBlink is 0 and the LED is off.
C20_VoiceCallPress ==
    [][ (app = "VoiceCall" /\ MainLeaves("button_act") /\ globals.g_Registered # 0) =>
          /\ Len(uartWrites') = 1
          /\ globals.g_VoiceCallState = "CALL_IDLE" =>
                /\ uartWrites'[1].packet.builder = "p_VoiceCall_StartCallReq"
                /\ globals' = globals
          /\ globals.g_VoiceCallState = "CALL_ACTIVE" =>
                /\ uartWrites'[1].packet.builder = "p_VoiceCall_EndCallReq"
                /\ globals' = globals
          /\ globals.g_VoiceCallState = "CALL_PENDING" =>
                /\ uartWrites'[1].packet = [builder |-> "p_VoiceCall_StartCallRes",
                                            rc |-> "CMND_RC_OK"]
                /\ globals' = [globals EXCEPT !.g_VoiceCallState = "CALL_ACTIVE",
                                              !.g_EnableBlink = 0]
                /\ ~LD2'
      ]_vars

C20_Witness ==
    /\ app = "VoiceCall"
    /\ mainPc = "blink"
    /\ en_ButtonMovement = "BUTTON_PRESSED"
    /\ Len(uartWrites) = 1
    /\ uartWrites[1].packet = [builder |-> "p_VoiceCall_StartCallRes", rc |-> "CMND_RC_OK"]
    /\ globals.g_Registered # 0
    /\ globals.g_VoiceCallState = "CALL_ACTIVE"
    /\ globals.g_EnableBlink = 0
    /\ ~LD2

(***************************************************************************)
(* Properties of p_HandleButton (specification SpecButton).                *)
(***************************************************************************)
\* The step is a call of p_HandleButton (the tick counter stands still).
ButtonCall == uwTick' = uwTick

\* Ticks since the press was observed.  The tick counter runs modulo 2^32 and
\* no hold of this model lasts 2^32 ticks, so the difference of the two
\* counter values is the time held, also across the wrap.
HeldTicks == uwTick - g_st_Button.u64_StartTicks

\* C27: p_HandleButton returns BUTTON_PRESSED only on a call that sees the button
\* go from pressed to released, only if more than BUTTON_ACTIVE_TIME ticks have
\* passed since the call that saw it go from released to pressed, and once per
\* press (the press is consumed); every other call returns BUTTON_NOCHANGE; after
\* every call b_Pressed is the sampled state.
C27_ButtonPressed ==
    [][ ButtonCall =>
          /\ g_st_Button'.b_Pressed = B1_Pressed'
          /\ en_ButtonMovement' \in {"BUTTON_NOCHANGE", "BUTTON_PRESSED"}
          /\ en_ButtonMovement' = "BUTTON_PRESSED" =>
                /\ g_st_Button.b_Pressed
                /\ ~B1_Pressed'
                /\ g_st_Button.en_State = "BUTTON_PENDING"
                /\ g_st_Button'.en_State = "BUTTON_INITIAL"
                /\ HeldTicks > BUTTON_ACTIVE_TIME
      ]_vars

(***************************************************************************)
(* Properties of the VoiceCall and Register examples (specification        *)
(* SpecApp).                                                               *)
(***************************************************************************)
\* The main loop processes a Call Start indication.
StartIndProcessed == MainLeaves("startind") /\ globals.g_GotVoiceCallStartInd # 0

\* The main loop processes a Call End indication.
EndIndProcessed == MainLeaves("endind") /\ globals.g_GotVoiceCallEndInd # 0

\* The body of a press answers the pending call.
Answered ==
    /\ MainLeaves("button_act")
    /\ globals.g_Registered # 0
    /\ globals.g_VoiceCallState = "CALL_PENDING"

\* The blink block runs with blinking enabled.
BlinkPass == MainLeaves("blink") /\ globals.g_EnableBlink # 0

\* C21 (as stated): in VoiceCall, processing a Call Start indication leaves the
\* state CALL_PENDING and blinking enabled; from then on every pass of the main
\* loop toggles the LED, until the press that answers or the processing of a
\* Call End indication, the only steps that disable blinking.
C21_LedTogglesEveryPass ==
    [][ (app = "VoiceCall") =>
          /\ StartIndProcessed =>
                /\ globals'.g_VoiceCallState = "CALL_PENDING"
                /\ globals'.g_EnableBlink = 1
          /\ BlinkPass => LD2' # LD2
          /\ (globals.g_EnableBlink # 0 /\ globals'.g_EnableBlink = 0) =>
                Answered \/ EndIndProcessed
      ]_vars

\* C21 (amended): in VoiceCall, processing a Call Start indication leaves the
\* state CALL_PENDING and blinking enabled; while blinking is enabled every pass
\* of the main loop writes the LED from g_BlinkOn (on if it was 0, off otherwise)
\* and inverts g_BlinkOn, which toggles the LED whenever the LED was what
\* g_BlinkOn said; blinking is disabled only by the press that answers or by
\* the processing of a Call End indication, and a pass with blinking disabled
\* leaves the LED alone.
C21_BlinkWhileEnabled ==
    [][ (app = "VoiceCall") =>
          /\ StartIndProcessed =>
                /\ globals'.g_VoiceCallState = "CALL_PENDING"
                /\ globals'.g_EnableBlink = 1
          /\ BlinkPass =>
                /\ LD2' = (globals.g_BlinkOn = 0)
                /\ globals' = [globals EXCEPT !.g_BlinkOn = IF @ = 0 THEN 1 ELSE 0]
                /\ (LD2 = (globals.g_BlinkOn # 0)) => LD2' # LD2
          /\ (MainLeaves("blink") /\ globals.g_EnableBlink = 0) =>
                (LD2' = LD2 /\ globals' = globals)
          /\ (globals.g_EnableBlink # 0 /\ globals'.g_EnableBlink = 0) =>
                Answered \/ EndIndProcessed
      ]_vars

\* Two passes after the Call Start indication: the LED has gone on and off again.
C21_Witness ==
    /\ app = "VoiceCall"
    /\ mainPc = "hello"
    /\ globals.g_VoiceCallState = "CALL_PENDING"
    /\ globals.g_EnableBlink = 1
    /\ globals.g_BlinkOn = 0
    /\ globals.g_GotVoiceCallStartInd = 0
    /\ g_st_Button.b_Pressed
    /\ dispatched = 1
    /\ ~LD2

\* The (serviceId, messageId) of the message the handler has just been given.
Received == <<rxLog'.serviceId, rxLog'.messageId>>

HelloInd == <<CMND_SERVICE_ID_GENERAL, CMND_MSG_GENERAL_HELLO_IND>>
RegisterCfm == <<CMND_SERVICE_ID_DEVICE_MANAGEMENT, CMND_MSG_DEV_MGNT_REGISTER_DEVICE_CFM>>
RegisterInd == <<CMND_SERVICE_ID_DEVICE_MANAGEMENT, CMND_MSG_DEV_MGNT_REGISTER_DEVICE_IND>>

\* C22: in the Register example the body of a detected press makes one UART
\* write, the registration request, whatever g_Registered is, and leaves every
\* static variable (g_Registered among them) as it was; g_Registered changes
\* only in a handler call for a Hello indication or a Register indication whose
\* information element was found; a Register confirmation leaves it as it was.
C22_RegisterPress ==
    [][ (app = "Register") =>
          /\ (mainPc = "button" /\ en_ButtonMovement' = "BUTTON_PRESSED") =>
                mainPc' = "button_act"
          /\ MainLeaves("button_act") =>
                /\ en_ButtonMovement = "BUTTON_PRESSED"
                /\ Len(uartWrites') = 1
                /\ uartWrites'[1].packet.builder = "p_DeviceManagement_RegisterDeviceReq"
                /\ globals' = globals
          /\ globals'.g_Registered # globals.g_Registered =>
                /\ HandlerRan
                /\ Received \in {HelloInd, RegisterInd}
                /\ p_CmndMsg_IeGet(rxLog').found
          /\ (HandlerRan /\ Received = RegisterCfm) =>
                globals'.g_Registered = globals.g_Registered
      ]_vars

\* A registered device has sent one more registration request.
C22_Witness ==
    /\ app = "Register"
    /\ mainPc = "hello"
    /\ en_ButtonMovement = "BUTTON_PRESSED"
    /\ globals.g_Registered = 1
    /\ Len(uartWrites) = 1
    /\ uartWrites[1].packet.builder = "p_DeviceManagement_RegisterDeviceReq"
    /\ uartWrites[1].status = HAL_OK
    /\ rxLog.messageId = CMND_MSG_DEV_MGNT_REGISTER_DEVICE_CFM
    /\ dispatched = 2

\* C23: on a Register indication (Alert and Register examples) whose response
\* element was found, a response code 0 stores the device address in g_DeviceId
\* and sets g_Registered to 1; a non-zero response code leaves g_DeviceId as it
\* was and sets g_Registered to 0.
C23_RegisterIndDeviceId ==
    [][ (/\ app \in {"Alert", "Register"}
         /\ HandlerRan
         /\ Received = RegisterInd
         /\ p_CmndMsg_IeGet(rxLog').found) =>
          LET ieResponse == p_CmndMsg_IeGet(rxLog')
          IN  IF ieResponse.u8_ResponseCode = 0
              THEN /\ globals'.g_DeviceId = ieResponse.u16_DeviceAddress
                   /\ globals'.g_Registered = 1
              ELSE /\ globals'.g_DeviceId = globals.g_DeviceId
                   /\ globals'.g_Registered = 0
      ]_vars

\* C24: a handler call for a Hello indication sets g_GotHelloInd to 1; if the
\* status element was found, g_Registered becomes 1 if the status is REGISTERED
\* and 0 otherwise, and g_DeviceId takes the element's device id if it is
\* REGISTERED and keeps its value otherwise; if no element was found both keep
\* their values.  Nothing else changes.
C24_HelloInd ==
    [][ (HandlerRan /\ Received = HelloInd) =>
          LET st_IeGenStatus == p_CmndMsg_IeGet(rxLog')
              registered == st_IeGenStatus.u8_RegStatus = CMND_GEN_STATUS_REGISTERED
          IN  /\ globals'.g_GotHelloInd = 1
              /\ st_IeGenStatus.found =>
                    /\ globals'.g_Registered = IF registered THEN 1 ELSE 0
                    /\ globals'.g_DeviceId = IF registered
                                             THEN st_IeGenStatus.u16_DeviceID
                                             ELSE globals.g_DeviceId
              /\ ~st_IeGenStatus.found =>
                    /\ globals'.g_Registered = globals.g_Registered
                    /\ globals'.g_DeviceId = globals.g_DeviceId
              /\ \A v \in DOMAIN globals \ {"g_GotHelloInd", "g_Registered", "g_DeviceId"} :
                    globals'[v] = globals[v]
      ]_vars

\* A Hello indication with a status other than REGISTERED after one with
\* REGISTERED: the device id of the first is still there.
C24_Witness ==
    /\ dispatched = 2
    /\ <<rxLog.serviceId, rxLog.messageId>> = HelloInd
    /\ p_CmndMsg_IeGet(rxLog).found
    /\ p_CmndMsg_IeGet(rxLog).u8_RegStatus # CMND_GEN_STATUS_REGISTERED
    /\ globals.g_GotHelloInd = 1
    /\ globals.g_Registered = 0
    /\ globals.g_DeviceId = p_CmndMsg_IeGet(AppMessage(HelloInd, 1)).u16_DeviceID

\* C28: in VoiceCall, processing a Call End indication makes one UART write, the
\* end-call response with CMND_RC_OK, and leaves the state CALL_IDLE, blinking
\* disabled and the LED off, whatever the state was; processing a Call Release
\* indication leaves the state CALL_IDLE; processing a Call Connected indication
\* gives one success indication (500 ms) and leaves the state CALL_ACTIVE; the
\* blocks of the Start and End confirmations change only their flag.
C28_CallIndications ==
    [][ (app = "VoiceCall") =>
          /\ EndIndProcessed =>
                /\ Len(uartWrites') = 1
                /\ uartWrites'[1].packet = [builder |-> "p_VoiceCall_EndCallRes",
                                            rc |-> "CMND_RC_OK"]
                /\ globals' = [globals EXCEPT !.g_GotVoiceCallEndInd = 0,
                                              !.g_VoiceCallState = "CALL_IDLE",
                                              !.g_EnableBlink = 0]
                /\ ~LD2'
          /\ (MainLeaves("relind") /\ globals.g_GotVoiceCallRelInd # 0) =>
                /\ globals' = [globals EXCEPT !.g_GotVoiceCallRelInd = 0,
                                              !.g_VoiceCallState = "CALL_IDLE"]
                /\ uartWrites' = <<>>
                /\ blinks' = <<>>
          /\ (MainLeaves("connind") /\ globals.g_GotVoiceCallConnInd # 0) =>
                /\ globals' = [globals EXCEPT !.g_GotVoiceCallConnInd = 0,
                                              !.g_VoiceCallState = "CALL_ACTIVE"]
                /\ blinks' = <<500>>
                /\ uartWrites' = <<>>
          /\ MainLeaves("startcfm") =>
                /\ globals' = [globals EXCEPT !.g_GotVoiceCallStartCfm = 0]
                /\ uartWrites' = <<>> /\ blinks' = <<>> /\ LD2' = LD2
          /\ MainLeaves("endcfm") =>
                /\ globals' = [globals EXCEPT !.g_GotVoiceCallEndCfm = 0]
                /\ uartWrites' = <<>> /\ blinks' = <<>> /\ LD2' = LD2
      ]_vars

\* A Call End indication processed while the call was pending and the LED on
\* (g_BlinkOn is what the last blink pass left).
C28_Witness ==
    /\ app = "VoiceCall"
    /\ mainPc = "endcfm"
    /\ Len(uartWrites) = 1
    /\ uartWrites[1].packet = [builder |-> "p_VoiceCall_EndCallRes", rc |-> "CMND_RC_OK"]
    /\ globals.g_VoiceCallState = "CALL_IDLE"
    /\ globals.g_EnableBlink = 0
    /\ globals.g_BlinkOn = 1
    /\ globals.g_GotVoiceCallEndInd = 0
    /\ dispatched = 2
    /\ ~LD2

(***************************************************************************)
(* Properties of the event flags (specification SpecAppFair).              *)
(***************************************************************************)
EventFlags ==
    {"g_GotHelloInd", "g_GotLinkCfmResponse", "g_GotRawFunReceiveInd",
     "g_GotVoiceCallStartInd", "g_GotVoiceCallStartCfm", "g_GotVoiceCallEndInd",
     "g_GotVoiceCallEndCfm", "g_GotVoiceCallRelInd", "g_GotVoiceCallConnInd"}

\* The step is one of main() (the interrupts leave its position alone).
MainStep == mainPc' # mainPc

\* C29: an event flag goes from 0 to 1 only in a handler call of the receive
\* interrupt, and from 1 to 0 only in a step of the main loop; a step of an
\* interrupt leaves g_VoiceCallState, g_EnableBlink and the LED as they are; and
\* as long as the main loop runs, a flag that is set is cleared later.
C29_EventFlags ==
    /\ [][ /\ \A f \in EventFlags :
                 /\ globals'[f] \in {0, 1}
                 /\ (globals[f] = 0 /\ globals'[f] = 1) => (HandlerRan /\ ~MainStep)
                 /\ (globals[f] = 1 /\ globals'[f] = 0) => (MainStep /\ ~HandlerRan)
            /\ ~MainStep =>
                  /\ globals'.g_VoiceCallState = globals.g_VoiceCallState
                  /\ globals'.g_EnableBlink = globals.g_EnableBlink
                  /\ LD2' = LD2
                  /\ blinks' = blinks
          ]_vars
    /\ \A f \in EventFlags : (globals[f] = 1) ~> (globals[f] = 0)

\* The interrupt has set the flag of the Call Start indication; the main loop
\* has since cleared it, acted on it and blinked.
C29_Witness ==
    /\ app = "VoiceCall"
    /\ dispatched = 1
    /\ rxLog.messageId = CMND_MSG_ULE_CALL_START_IND
    /\ globals.g_GotVoiceCallStartInd = 0
    /\ globals.g_VoiceCallState = "CALL_PENDING"
    /\ globals.g_EnableBlink = 1
    /\ LD2
    /\ mainPc = "endind"

(***************************************************************************)
(* Properties of the message builders and of ExampleSendRawFunMessage      *)
(* (specification SpecLib).                                                *)
(***************************************************************************)
Called(fn) == pc = "called" /\ call.fn = fn

\* C25: ExampleSendRawFunMessage called with a data size above
\* CMND_IE_FUN_MAX_DATA_SIZE returns false, has no packet built, writes nothing
\* to the UART, gives no LED indication and leaves the LED as it was; called
\* with a size up to the maximum it makes exactly one UART write, of the FUN
\* request built from an element whose u16_DataLen is the size given and whose
\* data are that many bytes of the caller's buffer.
C25_RawFunSizeLimit ==
    Called("ExampleSendRawFunMessage") =>
        IF call.args.u16_DataSize > CMND_IE_FUN_MAX_DATA_SIZE
        THEN /\ sendRet = <<FALSE>>
             /\ uartWrites = <<>>
             /\ blinks = <<>>
        ELSE /\ Len(uartWrites) = 1
             /\ uartWrites[1].packet.builder = "p_Fun_SendReq"
             /\ uartWrites[1].packet.st_IeFun.u16_DataLen = call.args.u16_DataSize
             /\ uartWrites[1].packet.st_IeFun.pu8_Data = RawBytes(call.args.u16_DataSize)
             /\ uartWrites[1].packet.st_IeFun.u16_SrcDeviceId = call.args.u16_DeviceId
             /\ Len(sendRet) = 1

\* One byte more than the maximum has been refused while the LED was on.
C25_Witness ==
    /\ Called("ExampleSendRawFunMessage")
    /\ call.args.u16_DataSize = CMND_IE_FUN_MAX_DATA_SIZE + 1
    /\ sendRet = <<FALSE>>
    /\ uartWrites = <<>>
    /\ blinks = <<>>
    /\ LD2

\* The builders without payload, with the serviceId and messageId of each.
PayloadFree ==
    [p_CmndMsg_System_CreateRssiGetReq |->
        <<CMND_SERVICE_ID_SYSTEM, CMND_MSG_SYS_RSSI_GET_REQ>>,
     p_CmndMsg_System_CreateBatteryIndEnableReq |->
        <<CMND_SERVICE_ID_SYSTEM, CMND_MSG_SYS_BATTERY_IND_ENABLE_REQ>>,
     p_CmndMsg_System_CreateBatteryIndDisableReq |->
        <<CMND_SERVICE_ID_SYSTEM, CMND_MSG_SYS_BATTERY_IND_DISABLE_REQ>>,
     p_CmndMsg_System_CreateResetReq |->
        <<CMND_SERVICE_ID_SYSTEM, CMND_MSG_SYS_RESET_REQ>>,
     p_Cmnd_DeviceManagement_CreateDeregisterDeviceReq |->
        <<CMND_SERVICE_ID_DEVICE_MANAGEMENT, CMND_MSG_DEV_MGNT_DEREGISTER_DEVICE_REQ>>]

\* C26: the four System builders without payload (RSSI get, battery indication
\* enable and disable, reset) and the deregister-device builder return true and
\* leave serviceId and messageId set to their own, unitId = 0 and
\* dataLength = 0, with cookie, checkSum and data as the caller had them.
C26_PayloadFreeBuilders ==
    (pc = "called" /\ call.fn \in DOMAIN PayloadFree) =>
        /\ ret = TRUE
        /\ pst_cmndApiMsg =
              [msgBefore EXCEPT !.serviceId = PayloadFree[call.fn][1],
                                !.messageId = PayloadFree[call.fn][2],
                                !.unitId = 0,
                                !.dataLength = 0]

\* The reset builder has run on a message that held an earlier one.
C26_Witness ==
    /\ Called("p_CmndMsg_System_CreateResetReq")
    /\ msgBefore = DirtyMsg
    /\ pst_cmndApiMsg.messageId = CMND_MSG_SYS_RESET_REQ
    /\ pst_cmndApiMsg.dataLength = 0
    /\ pst_cmndApiMsg.cookie = DirtyMsg.cookie
    /\ pst_cmndApiMsg.data = DirtyMsg.data
    /\ ret

\* The builders that carry an information element.
IeBuilders ==
    {"p_CmndMsg_Fun_CreateSendReq", "p_CmndMsg_System_CreateBatteryMeasureGetReq",
     "p_CmndMsg_TamperAlert_CreateSendNotifyStatusReq",
     "p_CmndMsg_TamperAlert_CreateSendNotifyStatusRes",
     "p_CmndMsg_Alert_CreateNotifyStatusReq", "p_CmndMsg_Alert_CreateNotifyStatusRes"}

RegisterWithBase ==
    /\ Called("p_Cmnd_DeviceManagement_CreateRegisterDeviceReq")
    /\ ~IsNull(call.args.pst_baseWanted)

RegisterWithoutBase ==
    /\ Called("p_Cmnd_DeviceManagement_CreateRegisterDeviceReq")
    /\ IsNull(call.args.pst_baseWanted)

\* C30: a builder that carries an information element (FUN send, Alert notify
\* request and response, TamperAlert notify request and response,
\* battery-measure get, register-device with a wanted base) leaves dataLength
\* at the size of the IE list after the add and returns the result of the add;
\* register-device without a wanted base (NULL) leaves dataLength = 0 and
\* returns true.
C30_IeBuilders ==
    /\ ((pc = "called" /\ call.fn \in IeBuilders) \/ RegisterWithBase) =>
          /\ pst_cmndApiMsg.dataLength = Len(call.args.add.list)
          /\ ret = call.args.add.ok
    /\ RegisterWithoutBase =>
          /\ pst_cmndApiMsg.dataLength = 0
          /\ ret = TRUE

\* An add that failed after it had put bytes in the list: the builder returns
\* false and dataLength is the size of the list, not what the caller had.
C30_Witness ==
    /\ Called("p_CmndMsg_Alert_CreateNotifyStatusReq")
    /\ msgBefore = DirtyMsg
    /\ ~call.args.add.ok
    /\ Len(call.args.add.list) = CMNDLIB_API_PACKET_MAX_SIZE
    /\ pst_cmndApiMsg.dataLength = CMNDLIB_API_PACKET_MAX_SIZE
    /\ ~ret


TamperBuilders ==
    [p_CmndMsg_TamperAlert_CreateSendNotifyStatusReq |->
         CMND_MSG_TAMPER_ALERT_NOTIFY_STATUS_REQ,
     p_CmndMsg_TamperAlert_CreateSendNotifyStatusRes |->
         CMND_MSG_TAMPER_ALERT_NOTIFY_STATUS_RES]

AlertBuilders ==
    [p_CmndMsg_Alert_CreateNotifyStatusReq |-> CMND_MSG_ALERT_NOTIFY_STATUS_REQ,
     p_CmndMsg_Alert_CreateNotifyStatusRes |-> CMND_MSG_ALERT_NOTIFY_STATUS_RES]

\* C31: the two TamperAlert builders set serviceId, messageId and dataLength and
\* leave unitId at the value the caller's message had, whatever u8_UnitId is;
\* the two Alert builders copy u8_UnitId into unitId.
C31_UnitId ==
    /\ (pc = "called" /\ call.fn \in DOMAIN TamperBuilders) =>
          /\ pst_cmndApiMsg.serviceId = CMND_SERVICE_ID_TAMPER_ALERT
          /\ pst_cmndApiMsg.messageId = TamperBuilders[call.fn]
          /\ pst_cmndApiMsg.dataLength = Len(call.args.add.list)
          /\ pst_cmndApiMsg.unitId = msgBefore.unitId
    /\ (pc = "called" /\ call.fn \in DOMAIN AlertBuilders) =>
          /\ pst_cmndApiMsg.serviceId = CMND_SERVICE_ID_ALERT
          /\ pst_cmndApiMsg.messageId = AlertBuilders[call.fn]
          /\ pst_cmndApiMsg.unitId = call.args.u8_UnitId

\* A TamperAlert request built for unit 255 on a message that held unit 7: the
\* message still names unit 7.
C31_Witness ==
    /\ Called("p_CmndMsg_TamperAlert_CreateSendNotifyStatusReq")
    /\ msgBefore = DirtyMsg
    /\ call.args.u8_UnitId = U8 - 1
    /\ pst_cmndApiMsg.unitId = DirtyMsg.unitId
    /\ pst_cmndApiMsg.unitId # call.args.u8_UnitId
====
